---- MODULE Spec2Model ----
(***************************************************************************)
(* Model of the vulnerability-monitoring action: the commit-frontier       *)
(* tracker (getCommitsSince / getLatestCommitSha), the classification      *)
(* step (analyzeCommit) and the run orchestrator (run) with its state      *)
(* file.  Commit identifiers are positive integers handed out in push      *)
(* order; 0 stands for null / an absent state entry.                       *)
(***************************************************************************)
EXTENDS Integers, Sequences, FiniteSets, TLC

\* ---------------------------------------------------------------- bounds
MaxSha == 4          \* commits ever pushed, over all repositories
MaxRuns == 2         \* runs of the action in one behaviour
MaxCap == 2          \* largest max-commits input of the run model
MaxListed == 102     \* longest host history of the tracker model
MaxText == 3 \* longest detail-field text of the rendering model, in characters
MaxDiff == 4 \* longest diff of the truncation model, in characters

\* ------------------------------------------------------ program constants
PerPageLimit == 100

NULL == 0
NullV == "null"

Repos == {"a", "b"}

Min(x, y) == IF x <= y THEN x ELSE y

Range(s) == {s[n] : n \in 1..Len(s)}

\* position of sha c in a newest-first listing, 0 when it does not occur
Pos(s, c) ==
  LET hits == {n \in 1..Len(s) : s[n] = c}
  IN IF hits = {} THEN 0 ELSE CHOOSE n \in hits : \A m \in hits : n <= m

\* ------------------------------------------------------------ host client

\* the page of a host that lists oldest first
RECURSIVE Reverse(_)
Reverse(s) == IF Len(s) = 0 THEN <<>> ELSE Append(Reverse(Tail(s)), Head(s))

ListCommitsOldestFirst(history, perPage) ==
  SubSeq(Reverse(history), 1, Min(perPage, Len(history)))

\* per_page: Math.min(maxCommits, 100)
PerPage(maxC) == Min(maxC, PerPageLimit)

\* octokit.repos.listCommits: the first page of the newest-first history
ListCommits(history, perPage) == SubSeq(history, 1, Min(perPage, Len(history)))

\* a scan that does not recognise the watermark
ScanBreaksNever(sha, sinceSha) == FALSE

\* if (commit.sha === sinceSha) { foundSinceSha = true; break; }
ScanBreaks(sha, sinceSha) == sha = sinceSha

\* a scan that gives up collecting after the first commit
ScanCollectsOne(foundSinceSha, count, maxC) == (~foundSinceSha) /\ count < 1

\* if (!foundSinceSha && count < maxCommits)
ScanCollects(foundSinceSha, count, maxC) == (~foundSinceSha) /\ count < maxC

\* a scan that pushes the head of the page whatever commit it is at
CollectedNewest(list, n) == list[1]

\* commits.push({ sha: commit.sha, ... }): the commit the loop is at
Collected(list, n) == list[n]

\* the for-loop of getCommitsSince over the fetched page, without failures
RECURSIVE ScanFrom(_, _, _, _, _, _)
ScanFrom(list, n, sinceSha, found, maxC, acc) ==
  IF n > Len(list) \/ ScanBreaks(list[n], sinceSha) THEN acc
  ELSE ScanFrom(list, n + 1, sinceSha, found, maxC,
                IF ScanCollects(found, Len(acc), maxC)
                THEN Append(acc, list[n]) ELSE acc)

\* getCommitsSince(repo, sinceSha, maxCommits) when every host call succeeds:
\* the identifiers of the returned commits, in returned order
GetCommitsSince(history, sinceSha, maxC) ==
  ScanFrom(ListCommits(history, PerPage(maxC)), 1, sinceSha,
           sinceSha = NULL, maxC, <<>>)

\* getAssociatedPullRequest: prs[0] or null; a throw is caught and gives null
PrOutcomes == {"throw", "none", "one", "many"}
GetAssociatedPullRequest(outcome) ==
  IF outcome \in {"one", "many"} THEN 1 ELSE NULL

\* --------------------------------------------------------------- analyzer

DetailFields == {"vulnerabilityType", "severity", "description",
                 "affectedCode", "proofOfConcept", "otCategory",
                 "affectedProtocol", "purdueLayer", "safetyImpact"}

\* the negative default verdict of the catch branch
DefaultAnalysis ==
  [f \in DetailFields \cup {"isVulnerabilityPatch"} |->
     IF f = "isVulnerabilityPatch" THEN "false" ELSE NullV]

\* JSON.parse("{" + content.text): the object the text denotes, or a failure
JsonParse(text) ==
  IF text.wellFormed THEN [ok |-> TRUE, value |-> text.object]
  ELSE [ok |-> FALSE, value |-> DefaultAnalysis]

\* an analyzeCommit that lets the parse failure reach its caller
AnalyzeCommitStrict(response) ==
  IF response.type # "text" \/ ~JsonParse(response.text).ok
  THEN [threw |-> TRUE, analysis |-> DefaultAnalysis, logs |-> 0]
  ELSE [threw |-> FALSE, analysis |-> JsonParse(response.text).value,
        logs |-> 0]

\* analyzeCommit once client.messages.create has returned `response`; logs is
\* the number of core.warning / core.error calls it makes (its catch has none)
AnalyzeCommit(response) ==
  IF response.type # "text"
  THEN [threw |-> TRUE, analysis |-> DefaultAnalysis, logs |-> 0]
  ELSE LET parsed == JsonParse(response.text)
       IN IF parsed.ok
          THEN [threw |-> FALSE, analysis |-> parsed.value, logs |-> 0]
          ELSE [threw |-> FALSE, analysis |-> DefaultAnalysis, logs |-> 0]

\* a test of the verdict that takes every verdict as positive
IsPositiveAlways(analysis) == TRUE

\* if (analysis.isVulnerabilityPatch)
IsPositive(analysis) == analysis["isVulnerabilityPatch"] = "true"

\* an oracle object: the flag and the same value in the chosen detail fields
OracleObject(flag, filled, v) ==
  [f \in DetailFields \cup {"isVulnerabilityPatch"} |->
     IF f = "isVulnerabilityPatch" THEN flag
     ELSE IF f \in filled THEN v ELSE NullV]

TextResponse(wf, obj) ==
  [type |-> "text", text |-> [wellFormed |-> wf, object |-> obj]]

\* responses the oracle gives in the run model
RunResponses ==
  { TextResponse(TRUE, OracleObject("true", DetailFields, "High")),
    TextResponse(TRUE, OracleObject("false", {}, NullV)),
    TextResponse(FALSE, DefaultAnalysis),
    [type |-> "tool_use", text |-> [wellFormed |-> FALSE, object |-> DefaultAnalysis]] }


\* -------------------------------------------------------------- run model

\* inputs.repositories lists the run model is started with
Configs == { <<"a">>, <<"a", "b">>, <<"a", "a">> }

VARIABLES
  hist,          \* host: per repository, the commit history, newest first
  nextSha,       \* host: per repository, the identifier of the next push
  rewritten,     \* host: per repository, whether history was ever rewritten
  disk,          \* the state file: repository key -> watermark, NULL = absent
  repositories,  \* inputs.repositories
  maxCommits,    \* inputs.maxCommits
  createIssues,  \* inputs.createIssues
  runs,          \* number of runs started
  pc,            \* position of run()
  state,         \* the in-memory state mapping of run()
  idx,           \* index of the repository entry being processed
  lastSha,       \* lastSha of the entry being processed
  commitList,    \* getCommitsSince: the fetched page
  pos,           \* getCommitsSince: position of the for-loop in the page
  commits,       \* getCommitsSince: commits collected; then the batch of run()
  cur,           \* run(): position of the analysis loop in the batch
  outputs,       \* run(): the ActionOutputs record
  calls,         \* per run and repository: external calls made for it, and
                 \* assignments of its in-memory watermark
  errs,          \* per run: entries whose processing threw
  visited,       \* per run: entries whose processing began
  positives,     \* per run: <<entry, sha>> of every positive verdict, in order
  loaded,        \* the mapping loadState returned at the start of the run
  entry,         \* the entry being processed, or the last one processed
  everHanded,    \* per repository: commits ever handed to the classifier
  firstBatch,    \* per run and repository: first batch getCommitsSince returned
  crashedBatch,  \* per repository: first batch of the last unsaved run
  killedIssues,  \* per repository: commits with an issue created by a run
                 \* that was killed after it (the crash specification)
  fn,            \* the call of the function-level specifications
  rawConfig,     \* the action inputs getInputs() reads, by kind
  fileKind,      \* the state file: what its content is (disk holds a mapping)
  stateKind,     \* run(): what kind of value loadState returned
  pending,       \* external calls that were issued and have not returned
  got,           \* what the current loop iteration already obtained
  io,            \* per run: loadState and saveState calls made
  issueCalls     \* per run: <<entry, sha>> of every issue creation attempted

hostVars == <<hist, nextSha, rewritten>>
inputVars == <<repositories, maxCommits, createIssues, rawConfig>>
localVars == <<lastSha, commitList, pos, commits, cur, got>>
runGhosts == <<calls, errs, visited, positives, entry, firstBatch, issueCalls>>
vars == <<hist, nextSha, rewritten, disk, repositories, maxCommits,
          createIssues, runs, pc, state, idx, lastSha, commitList, pos,
          commits, cur, outputs, calls, errs, visited, positives, loaded,
          entry, everHanded, firstBatch, crashedBatch,
          killedIssues, fn, rawConfig,
          fileKind, stateKind, pending, got, io, issueCalls>>

NoCalls ==
  [r \in Repos |-> [diff |-> 0, classify |-> 0, issue |-> 0, assigned |-> 0]]
NoBatch == <<NULL>>
NoOutputs == [vulnerabilitiesFound |-> 0, issuesCreated |-> 0,
              analyzedCommits |-> 0, results |-> <<>>]
NoEntry == [idx |-> 0, key |-> "a", kind |-> "none", outcome |-> "none",
            before |-> NULL, hostHead |-> NULL, batch |-> <<>>,
            diff |-> 0, classify |-> 0, lastThrew |-> FALSE, issue |-> 0,
            assigned |-> 0, lookup |-> 0]
NoFn == [op |-> "none"]
NoIo == [reads |-> 0, writes |-> 0, setOutput |-> 0]

\* inputs that getInputs() accepts: a JSON array of {owner, repo} objects, no
\* issue-repo, a state-file path inside the working directory
ValidConfig ==
  [repositories |-> "valid", issueRepo |-> "unset", stateFile |-> "relative"]

\* createIssues: core.getInput("create-issues") !== "false"
CreateIssuesInput(raw) == raw # "false"

Running == pc \in {"loop", "latest", "list", "scan", "analyze", "save"}
Stopped == pc \in {"done", "failed", "killed"}

\* getRepoKey(repo) of the entry being processed
repoKey == repositories[idx]

Init ==
  /\ hist = [r \in Repos |-> IF r = "a" THEN <<2, 1>> ELSE <<>>]
  /\ nextSha = [r \in Repos |-> Len(hist[r]) + 1]
  /\ rewritten = [r \in Repos |-> FALSE]
  /\ \E w \in {NULL} \cup Range(hist["a"]) :
       disk = [r \in Repos |-> IF r = "a" THEN w ELSE NULL]
  /\ repositories \in Configs
  /\ maxCommits \in 1..MaxCap
  /\ createIssues \in {CreateIssuesInput(raw) :
                         raw \in {"false", "true", "False", ""}}
  /\ runs = 0
  /\ pc = "idle"
  /\ state = [r \in Repos |-> NULL]
  /\ idx = 1
  /\ lastSha = NULL
  /\ commitList = <<>>
  /\ pos = 1
  /\ commits = <<>>
  /\ cur = 1
  /\ outputs = NoOutputs
  /\ calls = NoCalls
  /\ errs = {}
  /\ visited = {}
  /\ positives = <<>>
  /\ loaded = disk
  /\ entry = NoEntry
  /\ everHanded = [r \in Repos |-> {}]
  /\ firstBatch = [r \in Repos |-> NoBatch]
  /\ crashedBatch = [r \in Repos |-> NoBatch]
  /\ killedIssues = [r \in Repos |-> {}]
  /\ fn = NoFn
  /\ rawConfig = ValidConfig
  /\ fileKind = "map"
  /\ stateKind = "object"
  /\ pending = <<>>
  /\ got = "none"
  /\ io = NoIo
  /\ issueCalls = <<>>

\* the variables of one loop iteration go out of scope
ClearLocals ==
  /\ lastSha' = NULL
  /\ commitList' = <<>>
  /\ pos' = 1
  /\ commits' = <<>>
  /\ cur' = 1
  /\ got' = "none"

\* ---- host environment

\* the host changes between runs and between two entries of a run (a change
\* during an entry is seen by the run no earlier than at its next listing)
HostMayChange(r) ==
  /\ r \in Range(repositories)
  /\ \/ pc = "idle" /\ runs < MaxRuns
     \/ pc = "loop" /\ 1 < idx /\ idx <= Len(repositories)

\* the number of commits ever pushed
RECURSIVE Pushed(_)
Pushed(rs) ==
  IF rs = {} THEN 0
  ELSE LET r == CHOOSE q \in rs : TRUE
       IN (nextSha[r] - 1) + Pushed(rs \ {r})

\* a commit is pushed to repository r
Push(r) ==
  /\ HostMayChange(r)
  /\ Pushed(Repos) < MaxSha
  /\ hist' = [hist EXCEPT ![r] = <<nextSha[r]>> \o hist[r]]
  /\ nextSha' = [nextSha EXCEPT ![r] = nextSha[r] + 1]
  /\ UNCHANGED <<rewritten, disk, inputVars, runs, pc, state, idx, localVars,
                 outputs, runGhosts, loaded, everHanded, crashedBatch,
                 killedIssues, fn,
                 fileKind, stateKind, pending, io>>

\* the newest commit of repository r is force-pushed away
Rewrite(r) ==
  /\ HostMayChange(r)
  /\ Len(hist[r]) >= 2
  /\ \A q \in Repos : ~rewritten[q]
  /\ hist' = [hist EXCEPT ![r] = Tail(hist[r])]
  /\ rewritten' = [rewritten EXCEPT ![r] = TRUE]
  /\ UNCHANGED <<nextSha, disk, inputVars, runs, pc, state, idx, localVars,
                 outputs, runGhosts, loaded, everHanded, crashedBatch,
                 killedIssues, fn,
                 fileKind, stateKind, pending, io>>

\* ---- run()

\* getInputs(): JSON.parse of the repositories input and the checks on it throw
RepositoriesThrows(kind) == kind \in {"notJson", "notArray", "badItem"}

\* getInputs(): const [owner, repo] = issueRepoInput.split("/") and
\* if (!owner || !repo) throw; segments after the second are ignored
IssueRepoThrows(kind) == kind \in {"noSlash", "emptyOwner", "emptyRepo"}

\* sanitizeStatePath: an empty path or one with a NUL byte, a path outside the
\* working directory, and the working directory itself throw
SanitizeStatePathThrows(kind) == kind \in {"nul", "outside", "cwd"}

\* getInputs() throws, which the outer catch of run() turns into setFailed
GetInputsThrows(cfg) ==
  \/ RepositoriesThrows(cfg.repositories)
  \/ IssueRepoThrows(cfg.issueRepo)
  \/ SanitizeStatePathThrows(cfg.stateFile)

\* what the state file can hold: a JSON object of watermarks, no file, a file
\* that cannot be read, text that is not JSON, and the JSON values null, a
\* number / string / boolean, an array
FileKinds ==
  {"map", "missing", "unreadable", "garbage", "null", "primitive", "array"}

NoState == [r \in Repos |-> NULL]

\* a loadState that always starts fresh
LoadStateFresh(kind, file) == NoState

\* loadState(stateFile): the entries of the value it returns ({} when the file
\* is missing or readFileSync / JSON.parse throws; JSON.parse(content) as it is
\* otherwise)
LoadState(kind, file) == IF kind = "map" THEN file ELSE NoState

\* loadState(stateFile): the kind of value it returns
LoadedKind(kind) ==
  IF kind \in {"null", "primitive", "array"} THEN kind ELSE "object"

\* state[repoKey] throws a TypeError when state is null
ReadThrows(kind) == kind = "null"

\* state[repoKey] = sha throws a TypeError (strict mode) when state is a
\* primitive value
AssignThrows(kind) == kind = "primitive"

\* a saveState that writes an empty mapping
SavedFileEmpty(kind, st) == NoState

\* JSON.stringify(state): the entries written (the string keys of an array
\* and of a primitive are not serialised)
SavedFile(kind, st) == IF kind = "object" THEN st ELSE NoState

\* JSON.stringify(state): the kind of content written
SavedKind(kind) == IF kind = "object" THEN "map" ELSE kind

\* the memory of a process that is not running
NoProcess ==
  /\ state' = NoState
  /\ stateKind' = "object"
  /\ idx' = 1
  /\ ClearLocals
  /\ outputs' = NoOutputs
  /\ pending' = <<>>
  /\ calls' = NoCalls
  /\ errs' = {}
  /\ visited' = {}
  /\ positives' = <<>>
  /\ issueCalls' = <<>>
  /\ entry' = NoEntry
  /\ firstBatch' = [r \in Repos |-> NoBatch]

\* run(): getInputs, client initialisation, loadState, outputs zeroed; a throw
\* of getInputs reaches the outer catch (core.setFailed)
StartRun ==
  /\ pc = "idle"
  /\ runs < MaxRuns
  /\ runs' = runs + 1
  /\ IF GetInputsThrows(rawConfig)
     THEN /\ NoProcess
          /\ loaded' = disk
          /\ io' = NoIo
          /\ pc' = "failed"
     ELSE /\ state' = LoadState(fileKind, disk)
          /\ stateKind' = LoadedKind(fileKind)
          /\ loaded' = LoadState(fileKind, disk)
          /\ io' = [NoIo EXCEPT !.reads = 1]
          /\ outputs' = NoOutputs
          /\ idx' = 1
          /\ ClearLocals
          /\ pending' = <<>>
          /\ calls' = NoCalls
          /\ errs' = {}
          /\ visited' = {}
          /\ positives' = <<>>
          /\ issueCalls' = <<>>
          /\ entry' = NoEntry
          /\ firstBatch' = [r \in Repos |-> NoBatch]
          /\ pc' = "loop"
  /\ UNCHANGED <<hostVars, disk, fileKind, inputVars, everHanded,
                 crashedBatch, killedIssues, fn>>

\* a run that never takes the first-run branch
FirstRunNever(sha) == FALSE

\* if (lastSha === null): the first-run branch is taken
FirstRun(sha) == sha = NULL

\* for (const repo of inputs.repositories): the next entry; lastSha is read
\* from the state, outside the per-repository try: a throw ends the run
NextRepo ==
  /\ pc = "loop"
  /\ idx <= Len(repositories)
  /\ IF ReadThrows(stateKind)
     THEN /\ pc' = "failed"
          /\ UNCHANGED <<lastSha, visited, entry>>
     ELSE /\ lastSha' = state[repoKey]
          /\ visited' = visited \cup {idx}
          /\ pc' = IF FirstRun(state[repoKey]) THEN "latest" ELSE "list"
          /\ entry' = [NoEntry EXCEPT !.idx = idx, !.key = repoKey,
                         !.kind = IF state[repoKey] = NULL THEN "first"
                                  ELSE "since",
                         !.outcome = "open", !.before = state[repoKey]]
  /\ UNCHANGED <<hostVars, disk, fileKind, inputVars, runs, state, stateKind,
                 idx, commitList, pos, commits, cur, got, outputs, pending,
                 calls, errs, positives, issueCalls, loaded, everHanded,
                 firstBatch, crashedBatch, killedIssues, io, fn>>

\* a repository error that ends the loop
RepoErrorAborts == "save"

\* where run() continues after the catch of the per-repository try
RepoErrorPc == "loop"

\* a catch that forgets the watermark of the failed repository
StateOnErrorDrop(st, key) == [st EXCEPT ![key] = NULL]

\* the state mapping after the catch of the per-repository try
StateOnError(st, key) == st

\* the catch of the per-repository try: core.error, then the next entry
RepoError ==
  /\ errs' = errs \cup {idx}
  /\ state' = StateOnError(state, repoKey)
  /\ idx' = idx + 1
  /\ pc' = RepoErrorPc
  /\ ClearLocals

Bump(c, r, what) == [c EXCEPT ![r][what] = c[r][what] + 1]

\* a run that asks getCommitsSince for one commit more than max-commits
CommitCapPlusOne(inputMax) == inputMax + 1

\* the cap getCommitsSince is called with: inputs.maxCommits
CommitCap(inputMax) == inputMax

\* the external call the code issues next at its position, "none" when the
\* next statement is not a call
NextCall ==
  IF pc \in {"latest", "list"} THEN "listCommits"
  ELSE IF /\ pc = "scan"
          /\ pos <= Len(commitList)
          /\ ~ScanBreaks(commitList[pos], lastSha)
          /\ ScanCollects(lastSha = NULL, Len(commits), CommitCap(maxCommits))
       THEN IF got = "none" THEN "getCommit" ELSE "listPullRequests"
  ELSE IF pc = "analyze" /\ cur <= Len(commits)
       THEN IF got = "none" THEN "messages.create" ELSE "issues.create"
  ELSE "none"

\* a call that is issued although another one has not returned
AwaitsNothing(calls_) == TRUE

\* every call is awaited: the next statement runs once the call has returned
Awaits(calls_) == calls_ = <<>>

\* an external call is issued; outputs.analyzedCommits++ precedes the call of
\* analyzeCommit
Call ==
  /\ Awaits(pending)
  /\ Len(pending) < 2
  /\ NextCall # "none"
  /\ pending' = Append(pending, NextCall)
  /\ calls' = IF NextCall = "getCommit" THEN Bump(calls, repoKey, "diff")
              ELSE IF NextCall = "messages.create"
                   THEN Bump(calls, repoKey, "classify")
              ELSE IF NextCall = "issues.create"
                   THEN Bump(calls, repoKey, "issue")
              ELSE calls
  /\ entry' = IF NextCall = "getCommit"
              THEN [entry EXCEPT !.diff = entry.diff + 1]
              ELSE IF NextCall = "messages.create"
                   THEN [entry EXCEPT !.classify = entry.classify + 1]
              ELSE IF NextCall = "issues.create"
                   THEN [entry EXCEPT !.issue = entry.issue + 1]
              ELSE IF NextCall = "listPullRequests"
                   THEN [entry EXCEPT !.lookup = entry.lookup + 1]
              ELSE entry
  /\ outputs' = IF NextCall = "messages.create"
                THEN [outputs EXCEPT
                        !.analyzedCommits = outputs.analyzedCommits + 1]
                ELSE outputs
  /\ everHanded' = IF NextCall = "messages.create"
                   THEN [everHanded EXCEPT
                           ![repoKey] = everHanded[repoKey] \cup {commits[cur]}]
                   ELSE everHanded
  /\ issueCalls' = IF NextCall = "issues.create"
                   THEN Append(issueCalls, <<idx, commits[cur]>>)
                   ELSE issueCalls
  /\ UNCHANGED <<hostVars, disk, fileKind, inputVars, runs, pc, state,
                 stateKind, idx, localVars, errs, visited, positives, loaded,
                 firstBatch, crashedBatch, killedIssues, io, fn>>

\* commits[0].sha of getLatestCommitSha
LatestSha(page) == page[1]

\* a getLatestCommitSha without the check of the page length: it returns no
\* identifier for an empty repository
GetLatestCommitShaUnchecked(page) ==
  [threw |-> FALSE, sha |-> IF Len(page) = 0 THEN NULL ELSE LatestSha(page)]

\* getLatestCommitSha once listCommits has returned `page`: an empty page
\* throws 'No commits found'
GetLatestCommitShaResult(page) ==
  IF Len(page) = 0 THEN [threw |-> TRUE, sha |-> NULL]
  ELSE [threw |-> FALSE, sha |-> LatestSha(page)]

\* the first-run branch: state[repoKey] = await getLatestCommitSha(repo);
\* listCommits may throw, and an empty page throws 'No commits found'
GetLatestCommitSha ==
  /\ pc = "latest"
  /\ pending = <<"listCommits">>
  /\ pending' = <<>>
  /\ \E ok \in BOOLEAN :
       LET page == ListCommits(hist[repoKey], 1)
           latest == GetLatestCommitShaResult(page)
       IN IF ok /\ ~latest.threw /\ ~AssignThrows(stateKind)
          THEN /\ state' = [state EXCEPT ![repoKey] = latest.sha]
               /\ entry' = [entry EXCEPT !.outcome = "recorded",
                              !.hostHead = IF Len(hist[repoKey]) > 0
                                           THEN hist[repoKey][1] ELSE NULL,
                              !.assigned = entry.assigned + 1]
               /\ calls' = Bump(calls, repoKey, "assigned")
               /\ idx' = idx + 1
               /\ pc' = "loop"
               /\ ClearLocals
               /\ UNCHANGED errs
          ELSE /\ RepoError
               /\ entry' = [entry EXCEPT !.outcome = "error"]
               /\ UNCHANGED calls
  /\ UNCHANGED <<hostVars, disk, fileKind, inputVars, runs, stateKind, outputs,
                 visited, positives, issueCalls, loaded, everHanded,
                 firstBatch, crashedBatch, killedIssues, io, fn>>

\* getCommitsSince: octokit.repos.listCommits returns the page, or throws
ListPage ==
  /\ pc = "list"
  /\ pending = <<"listCommits">>
  /\ pending' = <<>>
  /\ \E ok \in BOOLEAN :
       IF ok
       THEN /\ commitList' = ListCommits(hist[repoKey],
                                       PerPage(CommitCap(maxCommits)))
            /\ pos' = 1
            /\ commits' = <<>>
            /\ pc' = "scan"
            /\ entry' = [entry EXCEPT
                           !.hostHead = IF Len(hist[repoKey]) > 0
                                        THEN hist[repoKey][1] ELSE NULL]
            /\ UNCHANGED <<errs, idx, state, lastSha, cur, got>>
       ELSE /\ RepoError
            /\ entry' = [entry EXCEPT !.outcome = "error"]
  /\ UNCHANGED <<hostVars, disk, fileKind, inputVars, runs, stateKind, outputs,
                 calls, visited, positives, issueCalls, loaded, everHanded,
                 firstBatch, crashedBatch, killedIssues, io, fn>>

\* a loop that catches the rejection of getCommit and skips the commit
DiffFailureSkips == FALSE

\* await octokit.repos.getCommit(...) has no try around it inside
\* getCommitsSince: its rejection leaves the function
DiffFailureThrows == TRUE

\* getCommitsSince: octokit.repos.getCommit returns the diff, or throws
GetCommit ==
  /\ pc = "scan"
  /\ pending = <<"getCommit">>
  /\ pending' = <<>>
  /\ \E diffOk \in BOOLEAN :
       IF diffOk
       THEN /\ got' = "diff"
            /\ UNCHANGED <<pc, idx, errs, state, commitList, pos, commits,
                           lastSha, cur, entry>>
       ELSE IF DiffFailureThrows
       THEN /\ entry' = [entry EXCEPT !.outcome = "error"]
            /\ RepoError
       ELSE /\ pos' = pos + 1
            /\ got' = "none"
            /\ UNCHANGED <<pc, idx, errs, state, commitList, commits,
                           lastSha, cur, entry>>
  /\ UNCHANGED <<hostVars, disk, fileKind, inputVars, runs, stateKind, outputs,
                 calls, visited, positives, issueCalls, loaded, everHanded,
                 firstBatch, crashedBatch, killedIssues, io, fn>>

\* getCommitsSince: the end of one iteration of the for-loop that does not
\* break: getAssociatedPullRequest has returned (it never throws) and the
\* commit is pushed, or the commit is not collected; the run model keeps the
\* identifier of a collected commit only
ScanCommit ==
  /\ pc = "scan"
  /\ \/ /\ pending = <<"listPullRequests">>
        /\ pending' = <<>>
        /\ commits' = Append(commits, Collected(commitList, pos))
     \/ /\ pending = <<>>
        /\ pos <= Len(commitList)
        /\ ~ScanBreaks(commitList[pos], lastSha)
        /\ ~ScanCollects(lastSha = NULL, Len(commits), CommitCap(maxCommits))
        /\ UNCHANGED <<pending, commits>>
  /\ pos' = pos + 1
  /\ got' = "none"
  /\ UNCHANGED <<hostVars, disk, fileKind, inputVars, runs, pc, state,
                 stateKind, idx, lastSha, commitList, cur, outputs, runGhosts,
                 loaded, everHanded, crashedBatch, killedIssues, io, fn>>

\* the in-memory state after an empty batch, were the entry dropped
StateOnEmptyDrop(st, key) == [st EXCEPT ![key] = NULL]

\* if (commits.length === 0) continue: the state mapping is not touched
StateOnEmpty(st, key) == st

\* getCommitsSince returns (end of the page, or the break at sinceSha);
\* run(): if (commits.length === 0) continue
GetCommitsSinceReturn ==
  /\ pc = "scan"
  /\ pending = <<>>
  /\ \/ pos > Len(commitList)
     \/ /\ pos <= Len(commitList)
        /\ ScanBreaks(commitList[pos], lastSha)
  /\ firstBatch' = IF firstBatch[repoKey] = NoBatch
                   THEN [firstBatch EXCEPT ![repoKey] = commits]
                   ELSE firstBatch
  /\ IF Len(commits) = 0
     THEN /\ idx' = idx + 1
          /\ pc' = "loop"
          /\ entry' = [entry EXCEPT !.outcome = "empty"]
          /\ state' = StateOnEmpty(state, repoKey)
          /\ ClearLocals
     ELSE /\ pc' = "analyze"
          /\ cur' = 1
          /\ entry' = [entry EXCEPT !.batch = commits]
          /\ UNCHANGED <<state, idx, lastSha, commitList, pos, commits, got>>
  /\ UNCHANGED <<hostVars, disk, fileKind, inputVars, runs, stateKind, outputs,
                 pending, calls, errs, visited, positives, issueCalls, loaded,
                 everHanded, crashedBatch, killedIssues, io, fn>>

\* client.messages.create rejects: analyzeCommit throws
Rejected == [threw |-> TRUE, analysis |-> DefaultAnalysis, logs |-> 0]

\* a catch that gives up the batch
AnalyzeErrorAborts == "save"

\* the catch around analyzeCommit: core.warning, then the next commit
AnalyzeErrorPc == "analyze"

\* a verdict that is put in front of the earlier ones
FoundInFront(out, vulnerability) ==
  [out EXCEPT !.vulnerabilitiesFound = out.vulnerabilitiesFound + 1,
              !.results = <<vulnerability>> \o out.results]

\* a verdict that is pushed without being counted
FoundUncounted(out, vulnerability) ==
  [out EXCEPT !.results = Append(out.results, vulnerability)]

\* outputs.vulnerabilitiesFound++; outputs.results.push(vulnerability)
Found(out, vulnerability) ==
  [out EXCEPT !.vulnerabilitiesFound = out.vulnerabilitiesFound + 1,
              !.results = Append(out.results, vulnerability)]

\* vulnerability.issueUrl = issueUrl; outputs.issuesCreated++
IssueCreated(out) == [out EXCEPT !.issuesCreated = out.issuesCreated + 1]

\* a failed issue creation that loses the verdict
AfterIssueFailureDrop(out, vulnerability) == out

\* the catch around createVulnerabilityIssue: core.warning, then the verdict
\* is recorded without an issue URL
AfterIssueFailure(out, vulnerability) == Found(out, vulnerability)

\* an issue is attempted for every positive verdict, whatever the input says
AttemptsIssueAlways(positive, flag) == positive

\* if (inputs.createIssues), inside if (analysis.isVulnerabilityPatch)
AttemptsIssue(positive, flag) == positive /\ flag

\* analyzeCommit has returned or thrown: a negative verdict and a throw end the
\* iteration, a positive verdict is recorded, after createVulnerabilityIssue
\* when inputs.createIssues is set
AnalyzeStep ==
  /\ pc = "analyze"
  /\ pending = <<"messages.create">>
  /\ pending' = <<>>
  /\ \E res \in {Rejected} \cup {AnalyzeCommit(resp) : resp \in RunResponses} :
       LET commit == commits[cur]
           positive == (~res.threw) /\ IsPositive(res.analysis)
           vulnerability == [repo |-> repoKey, sha |-> commit,
                             issueUrl |-> FALSE]
       IN /\ entry' = [entry EXCEPT !.lastThrew = res.threw]
          /\ positives' =
               IF (~res.threw) /\ res.analysis["isVulnerabilityPatch"] = "true"
               THEN Append(positives, <<idx, commit>>)
               ELSE positives
          /\ pc' = IF res.threw THEN AnalyzeErrorPc ELSE "analyze"
          /\ IF AttemptsIssue(positive, createIssues)
             THEN /\ got' = "positive"
                  /\ UNCHANGED <<outputs, cur>>
             ELSE /\ outputs' = IF positive THEN Found(outputs, vulnerability)
                                ELSE outputs
                  /\ cur' = cur + 1
                  /\ got' = "none"
  /\ UNCHANGED <<hostVars, disk, fileKind, inputVars, runs, state, stateKind,
                 idx, lastSha, commitList, pos, commits, calls, errs, visited,
                 issueCalls, loaded, everHanded, firstBatch, crashedBatch,
                 killedIssues, io,
                 fn>>

\* createVulnerabilityIssue has returned the issue URL or thrown; either way
\* the verdict is recorded and the iteration ends
CreateIssue ==
  /\ pc = "analyze"
  /\ pending = <<"issues.create">>
  /\ pending' = <<>>
  /\ \E issueOk \in BOOLEAN :
       LET vulnerability == [repo |-> repoKey, sha |-> commits[cur],
                             issueUrl |-> issueOk]
       IN outputs' = IF issueOk
                     THEN Found(IssueCreated(outputs), vulnerability)
                     ELSE AfterIssueFailure(outputs, vulnerability)
  /\ cur' = cur + 1
  /\ got' = "none"
  /\ UNCHANGED <<hostVars, disk, fileKind, inputVars, runs, pc, state,
                 stateKind, idx, lastSha, commitList, pos, commits, runGhosts,
                 loaded, everHanded, crashedBatch, killedIssues, io, fn>>

\* a loop that is never left
BatchDoneNever(c, batch) == FALSE

\* a loop that is left after its first commit
BatchDoneEarly(c, batch) == c > 1

\* the `for (const commit of commits)` loop has ended
BatchDone(c, batch) == c > Len(batch)

\* the watermark set to the oldest commit of the batch
NewWatermarkOldest(batch) == batch[Len(batch)]

\* state[repoKey] = commits[0].sha
NewWatermark(batch) == batch[1]

\* a run that writes the state file at every advancement
DiskCheckpoint(file, st) == st

\* the state file is not touched inside the repository loop
DiskInLoop(file, st) == file

\* the analysis loop is over: the watermark is updated, then the next entry
Advance ==
  /\ pc = "analyze"
  /\ pending = <<>>
  /\ got = "none"
  /\ BatchDone(cur, commits)
  /\ IF AssignThrows(stateKind)
     THEN /\ entry' = [entry EXCEPT !.outcome = "error"]
          /\ RepoError
          /\ UNCHANGED calls
     ELSE /\ state' = [state EXCEPT ![repoKey] = NewWatermark(commits)]
          /\ entry' = [entry EXCEPT !.outcome = "advanced",
                         !.assigned = entry.assigned + 1]
          /\ calls' = Bump(calls, repoKey, "assigned")
          /\ idx' = idx + 1
          /\ pc' = "loop"
          /\ ClearLocals
          /\ UNCHANGED errs
  /\ disk' = DiskInLoop(disk, state')
  /\ UNCHANGED <<hostVars, fileKind, inputVars, runs, stateKind, outputs,
                 pending, visited, positives, issueCalls, loaded, everHanded,
                 firstBatch, crashedBatch, killedIssues, io, fn>>

\* the repository loop is over
LoopDone ==
  /\ pc = "loop"
  /\ idx > Len(repositories)
  /\ pc' = "save"
  /\ UNCHANGED <<hostVars, disk, fileKind, inputVars, runs, state, stateKind,
                 idx, localVars, outputs, pending, runGhosts, loaded,
                 everHanded, crashedBatch, killedIssues, io, fn>>

\* the batches of a run whose state never reached the state file
Unsaved ==
  [r \in Repos |-> IF firstBatch[r] # NoBatch THEN firstBatch[r]
                   ELSE crashedBatch[r]]

\* the unsaved batches that remain once this run has persisted its state:
\* those of the repositories for which this run obtained no batch
Superseded ==
  [r \in Repos |-> IF firstBatch[r] # NoBatch THEN NoBatch
                   ELSE crashedBatch[r]]

\* the commits of repository r for which this run created an issue
IssuesOf(r) ==
  {outputs.results[k].sha :
     k \in {j \in 1..Len(outputs.results) :
              outputs.results[j].repo = r /\ outputs.results[j].issueUrl}}

\* the issues of killed runs that remain once this run has persisted its
\* state: those of the repositories for which this run obtained no batch
SupersededIssues ==
  [r \in Repos |-> IF firstBatch[r] # NoBatch THEN {} ELSE killedIssues[r]]

\* a run that sets its outputs whether the state file was written or not
SetOutputCallsAlways(saved) == 4

\* the four core.setOutput calls follow saveState: a throw of saveState skips
\* them
SetOutputCalls(saved) == IF saved THEN 4 ELSE 0

\* saveState(stateFile, state), then the outputs are set; a failing write
\* reaches the outer catch (core.setFailed)
SaveState ==
  /\ pc = "save"
  /\ \E ok \in BOOLEAN :
       /\ io' = [io EXCEPT !.writes = io.writes + 1,
                           !.setOutput = SetOutputCalls(ok)]
       /\ IF ok
          THEN /\ disk' = SavedFile(stateKind, state)
               /\ fileKind' = SavedKind(stateKind)
               /\ pc' = "done"
               /\ crashedBatch' = Superseded
               /\ killedIssues' = SupersededIssues
          ELSE /\ pc' = "failed"
               /\ crashedBatch' = Unsaved
               /\ UNCHANGED <<disk, fileKind, killedIssues>>
  /\ UNCHANGED <<hostVars, inputVars, runs, state, stateKind, idx, localVars,
                 outputs, pending, runGhosts, loaded, everHanded, fn>>

\* the process is terminated from outside: its memory is gone
Killed ==
  /\ Running
  /\ pc' = "killed"
  /\ crashedBatch' = Unsaved
  /\ NoProcess
  /\ io' = NoIo
  /\ loaded' = disk
  /\ UNCHANGED <<hostVars, disk, fileKind, inputVars, runs, everHanded, fn>>

Kill == Killed /\ UNCHANGED killedIssues

\* the process is terminated after createVulnerabilityIssue returned an issue
\* URL in this run: the same step, with the issues of the run kept on record
KillAfterIssue ==
  /\ \E r \in Repos : IssuesOf(r) # {}
  /\ Killed
  /\ killedIssues' = [r \in Repos |-> IF firstBatch[r] # NoBatch
                                       THEN IssuesOf(r) ELSE killedIssues[r]]

\* the process of a run that ended is gone; the state file stays
Exit ==
  /\ Stopped
  /\ pc' = "idle"
  /\ NoProcess
  /\ io' = NoIo
  /\ loaded' = disk
  /\ UNCHANGED <<hostVars, disk, fileKind, inputVars, runs, everHanded,
                 crashedBatch, killedIssues, fn>>

Next ==
  \/ \E r \in Repos : Push(r)
  \/ \E r \in Repos : Rewrite(r)
  \/ StartRun
  \/ NextRepo
  \/ Call
  \/ GetLatestCommitSha
  \/ ListPage
  \/ GetCommit
  \/ ScanCommit
  \/ GetCommitsSinceReturn
  \/ AnalyzeStep
  \/ CreateIssue
  \/ Advance
  \/ LoopDone
  \/ SaveState
  \/ Kill
  \/ Exit

Spec == Init /\ [][Next]_vars

\* ------------------------------------------- function-level specifications

runVars == <<hist, nextSha, rewritten, disk, repositories, maxCommits,
             createIssues, runs, pc, state, idx, lastSha, commitList, pos,
             commits, cur, outputs, calls, errs, visited, positives, loaded,
             entry, everHanded, firstBatch, crashedBatch,
             killedIssues, rawConfig, fileKind,
             stateKind, pending, got, io, issueCalls>>

\* no run is in progress
Quiet ==
  /\ hist = [r \in Repos |-> <<>>]
  /\ nextSha = [r \in Repos |-> 1]
  /\ rewritten = [r \in Repos |-> FALSE]
  /\ disk = [r \in Repos |-> NULL]
  /\ repositories = <<"a", "b">>
  /\ maxCommits = 1
  /\ createIssues = TRUE
  /\ runs = 0
  /\ pc = "idle"
  /\ state = [r \in Repos |-> NULL]
  /\ idx = 1
  /\ lastSha = NULL
  /\ commitList = <<>>
  /\ pos = 1
  /\ commits = <<>>
  /\ cur = 1
  /\ outputs = NoOutputs
  /\ calls = NoCalls
  /\ errs = {}
  /\ visited = {}
  /\ positives = <<>>
  /\ loaded = [r \in Repos |-> NULL]
  /\ entry = NoEntry
  /\ everHanded = [r \in Repos |-> {}]
  /\ firstBatch = [r \in Repos |-> NoBatch]
  /\ crashedBatch = [r \in Repos |-> NoBatch]
  /\ killedIssues = [r \in Repos |-> {}]
  /\ rawConfig = ValidConfig
  /\ fileKind = "map"
  /\ stateKind = "object"
  /\ pending = <<>>
  /\ got = "none"
  /\ io = NoIo
  /\ issueCalls = <<>>

\* a host history of n commits, newest first: n, n-1, ..., 1
History(n) == [k \in 1..n |-> n + 1 - k]

\* max-commits inputs of the tracker model: small ones and ones around the
\* page limit
TrackerCaps == {1, 2, PerPageLimit - 1, PerPageLimit, PerPageLimit + 1,
                MaxListed}

\* history lengths of the tracker model: short ones and ones around the page
\* limit
TrackerLens == (0..3) \cup ((PerPageLimit - 1)..MaxListed)

\* run() is about to call getCommitsSince(repo, sinceSha, maxCommits) for its
\* only entry, on a history of n commits with a sinceSha that is null (0), a
\* commit of the history (1..n), or unknown to it (n + 1)
InitTracker ==
  /\ \E n \in TrackerLens, since \in 0..(MaxListed + 1), maxC \in TrackerCaps :
       /\ since <= n + 1
       /\ hist = [r \in Repos |-> IF r = "a" THEN History(n) ELSE <<>>]
       /\ maxCommits = maxC
       /\ lastSha = since
       /\ state = [r \in Repos |-> IF r = "a" THEN since ELSE NULL]
       /\ disk = [r \in Repos |-> IF r = "a" THEN since ELSE NULL]
       /\ loaded = [r \in Repos |-> IF r = "a" THEN since ELSE NULL]
       /\ entry = [NoEntry EXCEPT !.idx = 1, !.key = "a", !.kind = "since",
                     !.outcome = "open", !.before = since]
  /\ nextSha = [r \in Repos |-> 1]
  /\ rewritten = [r \in Repos |-> FALSE]
  /\ repositories = <<"a">>
  /\ createIssues = TRUE
  /\ runs = 1
  /\ pc = "list"
  /\ idx = 1
  /\ commitList = <<>>
  /\ pos = 1
  /\ commits = <<>>
  /\ cur = 1
  /\ outputs = NoOutputs
  /\ calls = NoCalls
  /\ errs = {}
  /\ visited = {1}
  /\ positives = <<>>
  /\ everHanded = [r \in Repos |-> {}]
  /\ firstBatch = [r \in Repos |-> NoBatch]
  /\ crashedBatch = [r \in Repos |-> NoBatch]
  /\ killedIssues = [r \in Repos |-> {}]
  /\ rawConfig = ValidConfig
  /\ fileKind = "map"
  /\ stateKind = "object"
  /\ pending = <<>>
  /\ got = "none"
  /\ io = [NoIo EXCEPT !.reads = 1]
  /\ issueCalls = <<>>
  /\ fn = NoFn

\* the call runs to its return, or to the throw of a host call
NextTracker ==
  \/ Call
  \/ ListPage
  \/ GetCommit
  \/ ScanCommit
  \/ GetCommitsSinceReturn

SpecTracker == InitTracker /\ [][NextTracker]_vars

\* every oracle response: not a text block, text that is not JSON, or an
\* object with either flag and any set of detail fields filled in
AllResponses ==
  { [type |-> "tool_use",
     text |-> [wellFormed |-> FALSE, object |-> DefaultAnalysis]] }
  \cup { TextResponse(FALSE, DefaultAnalysis) }
  \cup { TextResponse(FALSE, OracleObject(flag, DetailFields, "x")) :
           flag \in {"true", "false"} }
  \cup { TextResponse(TRUE, OracleObject(flag, filled, "x")) :
           flag \in {"true", "false"}, filled \in SUBSET DetailFields }

InitAnalyzer ==
  /\ Quiet
  /\ \E apiOk \in BOOLEAN, response \in AllResponses :
       fn = [op |-> "analyzeCommit", apiOk |-> apiOk, response |-> response,
             done |-> FALSE, result |-> Rejected]

\* analyzeCommit returns or throws
CallAnalyzeCommit ==
  /\ fn.op = "analyzeCommit"
  /\ ~fn.done
  /\ fn' = [fn EXCEPT !.done = TRUE,
               !.result = IF fn.apiOk THEN AnalyzeCommit(fn.response)
                          ELSE Rejected]
  /\ UNCHANGED runVars

NextAnalyzer == CallAnalyzeCommit

SpecAnalyzer == InitAnalyzer /\ [][NextAnalyzer]_vars

\* ---- the catch blocks and their log calls

\* lists of pull requests the host can return for a commit (their numbers)
PrLists == {<<>>, <<1>>, <<2>>, <<1, 2>>, <<2, 1>>, <<3, 1, 2>>}

\* a getAssociatedPullRequest without its try: the throw of the host call
\* leaves it
LookupPullRequestThrows(throws, prs) ==
  [threw |-> throws,
   pullRequest |-> IF throws \/ prs = <<>> THEN NULL ELSE prs[1],
   logs |-> 0]

\* getAssociatedPullRequest: the first pull request of the list, null when
\* the list is empty or the host call throws (catch { return null }); logs is
\* the number of core.warning / core.error calls it makes
LookupPullRequest(throws, prs) ==
  [threw |-> FALSE,
   pullRequest |-> IF throws \/ prs = <<>> THEN NULL ELSE prs[1],
   logs |-> 0]

\* the catch blocks of run() and loadState, and the number of core.warning /
\* core.error calls each makes before processing continues
RunCatches == {"repository", "classification", "issueCreation", "stateFile"}
RunCatchLogs(site) ==
  CASE site = "repository"     -> 1
    [] site = "classification" -> 1
    [] site = "issueCreation"  -> 2
    [] site = "stateFile"      -> 1

\* a call of analyzeCommit, of getAssociatedPullRequest, or a throw that
\* reaches one of the catch blocks of run() and loadState
InitCatch ==
  /\ Quiet
  /\ \/ \E apiOk \in BOOLEAN, response \in AllResponses :
          fn = [op |-> "analyzeCommit", apiOk |-> apiOk,
                response |-> response, done |-> FALSE, result |-> Rejected]
     \/ \E throws \in BOOLEAN, prs \in PrLists :
          fn = [op |-> "getAssociatedPullRequest", throws |-> throws,
                prs |-> prs, done |-> FALSE, result |-> Rejected]
     \/ \E site \in RunCatches :
          fn = [op |-> "catch", site |-> site, done |-> FALSE,
                result |-> Rejected]

\* getAssociatedPullRequest returns
CallGetAssociatedPullRequest ==
  /\ fn.op = "getAssociatedPullRequest"
  /\ ~fn.done
  /\ fn' = [fn EXCEPT !.done = TRUE,
               !.result = LookupPullRequest(fn.throws, fn.prs)]
  /\ UNCHANGED runVars

\* a catch block of run() or loadState handles a throw
Catch ==
  /\ fn.op = "catch"
  /\ ~fn.done
  /\ fn' = [fn EXCEPT !.done = TRUE,
               !.result = [threw |-> FALSE, logs |-> RunCatchLogs(fn.site)]]
  /\ UNCHANGED runVars

NextCatch ==
  \/ CallAnalyzeCommit
  \/ CallGetAssociatedPullRequest
  \/ Catch

SpecCatch == InitCatch /\ [][NextCatch]_vars


\* the forms of the three validated inputs: repositories (valid JSON array of
\* {owner, repo} objects; not JSON; JSON that is no array; an item that is no
\* object with non-empty owner and repo strings), issue-repo (unset;
\* "owner/repo"; no "/"; "/repo"; "owner/"; "owner/repo/more") and state-file
\* (unset: the default name; a relative file path; a path holding a NUL byte;
\* a path outside the working directory; the working directory itself)
RepositoriesInputs == {"valid", "notJson", "notArray", "badItem"}
IssueRepoInputs ==
  {"unset", "ownerRepo", "noSlash", "emptyOwner", "emptyRepo", "extraSegment"}
StateFileInputs == {"unset", "relative", "nul", "outside", "cwd"}

\* the configurations the start model draws from: the valid one and the ones
\* that differ from it in one input
RawConfigs ==
  { c \in [repositories : RepositoriesInputs, issueRepo : IssueRepoInputs,
           stateFile : StateFileInputs] :
      Cardinality({f \in {"repositories", "issueRepo", "stateFile"} :
                     c[f] # ValidConfig[f]}) <= 1 }

\* inputs.repositories lists of the start model: those of the run model and
\* one whose first repository has no commit
StartConfigs == Configs \cup { <<"b", "a">> }

\* a run is started with any configuration and any content of the state
\* file, on a host that does not change
InitStart ==
  /\ hist = [r \in Repos |-> IF r = "a" THEN <<2, 1>> ELSE <<>>]
  /\ nextSha = [r \in Repos |-> Len(hist[r]) + 1]
  /\ rewritten = [r \in Repos |-> FALSE]
  /\ rawConfig \in RawConfigs
  /\ fileKind \in FileKinds
  /\ \E w \in {NULL} \cup Range(hist["a"]) :
       /\ fileKind # "map" => w = NULL
       /\ disk = [r \in Repos |-> IF r = "a" THEN w ELSE NULL]
  /\ repositories \in StartConfigs
  /\ maxCommits \in 1..MaxCap
  /\ createIssues \in {CreateIssuesInput(raw) :
                         raw \in {"false", "true", "False", ""}}
  /\ runs = 0
  /\ pc = "idle"
  /\ state = NoState
  /\ idx = 1
  /\ lastSha = NULL
  /\ commitList = <<>>
  /\ pos = 1
  /\ commits = <<>>
  /\ cur = 1
  /\ outputs = NoOutputs
  /\ calls = NoCalls
  /\ errs = {}
  /\ visited = {}
  /\ positives = <<>>
  /\ loaded = disk
  /\ entry = NoEntry
  /\ everHanded = [r \in Repos |-> {}]
  /\ firstBatch = [r \in Repos |-> NoBatch]
  /\ crashedBatch = [r \in Repos |-> NoBatch]
  /\ killedIssues = [r \in Repos |-> {}]
  /\ fn = NoFn
  /\ stateKind = "object"
  /\ pending = <<>>
  /\ got = "none"
  /\ io = NoIo
  /\ issueCalls = <<>>

NextStart ==
  \/ StartRun
  \/ NextRepo
  \/ Call
  \/ GetLatestCommitSha
  \/ ListPage
  \/ GetCommit
  \/ ScanCommit
  \/ GetCommitsSinceReturn
  \/ AnalyzeStep
  \/ CreateIssue
  \/ Advance
  \/ LoopDone
  \/ SaveState
  \/ Kill
  \/ Exit

SpecStart == InitStart /\ [][NextStart]_vars

TypeOK ==
  /\ pc \in {"idle", "loop", "latest", "list", "scan", "analyze", "save",
             "done", "failed", "killed"}
  /\ idx \in 1..(Len(repositories) + 1)
  /\ \A r \in Repos : state[r] \in 0..MaxSha /\ disk[r] \in 0..MaxSha


\* ------------------------------------------------------------------ claims

\* c is listed before w in a newest-first history that holds both
Newer(h, c, w) == Pos(h, c) # 0 /\ Pos(h, w) # 0 /\ Pos(h, c) < Pos(h, w)

\* the number of configured entries of repository r
Entries(r) == Cardinality({n \in 1..Len(repositories) : repositories[n] = r})

NoCallsFor(r) ==
  calls[r].diff = 0 /\ calls[r].classify = 0 /\ calls[r].issue = 0

LoopOver == pc \in {"save", "done", "failed"}

\* C1: with N commits newer than the watermark and cap C, getCommitsSince
\* returns exactly min(N, C) commits, the newest ones in newest-first order,
\* none of them the watermark or older (for every C, also above the page limit)
C1_FrontierCorrectness ==
  (firstBatch["a"] # NoBatch /\ Pos(hist["a"], entry.before) # 0) =>
    LET N == Pos(hist["a"], entry.before) - 1
        batch == firstBatch["a"]
    IN /\ Len(batch) = Min(N, maxCommits)
       /\ batch = SubSeq(hist["a"], 1, Len(batch))
       /\ \A k \in 1..Len(batch) : Newer(hist["a"], batch[k], entry.before)

\* C2: no lost classification: when a completed run has persisted its state,
\* every commit that was newer than the watermark the run loaded and is not
\* newer than the watermark it stored has been handed to the classifier in
\* some run (history not rewritten)
C2_NoLostClassification ==
  pc = "done" =>
    \A r \in Repos :
      (loaded[r] # NULL /\ ~rewritten[r]) =>
        \A c \in Range(hist[r]) :
          (Newer(hist[r], c, loaded[r]) /\ ~Newer(hist[r], c, disk[r]))
            => c \in everHanded[r]

\* C3 as stated: for a repository with no entry in the loaded state the run
\* makes no diff fetch, no classification call and no issue creation, and a
\* first-run entry whose getLatestCommitSha returned has the host's newest
\* commit as watermark; getCommitsSince with a null watermark returns nothing
C3_FirstRunPerRun ==
  /\ \A r \in Repos : loaded[r] = NULL => NoCallsFor(r)
  /\ (entry.kind = "first" /\ entry.outcome = "recorded")
       => state[entry.key] = entry.hostHead
  /\ \A r \in Repos : GetCommitsSince(hist[r], NULL, maxCommits) = <<>>

\* C3 amended: a configured entry that finds no watermark in the in-memory
\* state makes no diff fetch, classification call or issue creation and, unless
\* getLatestCommitSha throws, ends with the host's newest commit as watermark;
\* for a repository configured once and absent from the loaded state the whole
\* run makes none of these calls; getCommitsSince(null) returns nothing
C3_FirstRunEntry ==
  /\ entry.kind = "first" =>
       /\ entry.diff = 0 /\ entry.classify = 0 /\ entry.issue = 0
       /\ entry.outcome \in {"open", "error", "recorded"}
       /\ entry.outcome = "recorded" => state[entry.key] = entry.hostHead
  /\ \A r \in Repos : (loaded[r] = NULL /\ Entries(r) = 1) => NoCallsFor(r)
  /\ \A r \in Repos : GetCommitsSince(hist[r], NULL, maxCommits) = <<>>

C3_Witness ==
  /\ entry.kind = "first"
  /\ entry.outcome = "recorded"
  /\ Len(hist[entry.key]) >= 2
  /\ state[entry.key] = hist[entry.key][1]
  /\ pc = "done"

\* C4: monotonic advancement: while a repository's history is not rewritten, a
\* stored watermark is a commit of the host history and is only ever replaced
\* by the same or a newer commit, in the state file and in the run's memory
C4_MonotonicWatermark ==
  [][ \A r \in Repos :
        ~rewritten'[r] =>
          /\ disk'[r] # NULL => Pos(hist'[r], disk'[r]) # 0
          /\ disk[r] # NULL =>
               /\ disk'[r] # NULL
               /\ Pos(hist'[r], disk'[r]) <= Pos(hist'[r], disk[r])
          /\ (state[r] # NULL /\ runs' = runs /\ pc' \notin {"killed", "idle"}) =>
               /\ state'[r] # NULL
               /\ Pos(hist'[r], state'[r]) # 0
               /\ Pos(hist'[r], state'[r]) <= Pos(hist'[r], state[r]) ]_vars

\* two completed runs, each of which moved the watermark of "a" forward
C4_Witness ==
  /\ runs = 2
  /\ pc = "done"
  /\ ~rewritten["a"]
  /\ loaded["a"] # NULL
  /\ Newer(hist["a"], disk["a"], loaded["a"])
  /\ Pos(hist["a"], loaded["a"]) < Len(hist["a"])

\* C5: a re-run after a run whose state was never persisted obtains a batch
\* that contains every commit of that run's batch (history not rewritten)
C5_RerunReproducesBatch ==
  \A r \in Repos :
    (crashedBatch[r] # NoBatch /\ firstBatch[r] # NoBatch /\ ~rewritten[r])
      => Range(crashedBatch[r]) \subseteq Range(firstBatch[r])

\* C6: a verdict returned by analyzeCommit with isVulnerabilityPatch = false
\* has every other field null
C6_NegativeNormalized ==
  (fn.op = "analyzeCommit" /\ fn.done /\ ~fn.result.threw
     /\ fn.result.analysis["isVulnerabilityPatch"] = "false")
    => \A f \in DetailFields : fn.result.analysis[f] = NullV

C8_ErrorLeavesRepoUntouched ==
  LoopOver =>
    \A n \in errs :
      /\ state[repositories[n]] = loaded[repositories[n]]
      /\ calls[repositories[n]].classify = 0
      /\ calls[repositories[n]].issue = 0

\* C8 amended: the processing of an entry that throws leaves the in-memory
\* state mapping as it was when the entry began and makes no classification
\* call and no issue creation; for a repository configured once this is its
\* entry as loaded, and holds for the whole run
C8_ErrorEntryFrame ==
  /\ entry.outcome = "error" =>
       /\ state[entry.key] = entry.before
       /\ entry.classify = 0 /\ entry.issue = 0 /\ entry.assigned = 0
  /\ LoopOver =>
       \A n \in errs :
         Entries(repositories[n]) = 1 =>
           /\ state[repositories[n]] = loaded[repositories[n]]
           /\ calls[repositories[n]].classify = 0
           /\ calls[repositories[n]].issue = 0

\* a diff fetch failed after an earlier commit of the batch had been enriched
C8_Witness ==
  /\ entry.outcome = "error"
  /\ entry.kind = "since"
  /\ entry.diff >= 2
  /\ state[entry.key] = entry.before
  /\ pc = "done"
  /\ disk[entry.key] = loaded[entry.key]

\* C9: once the batch has been handed to the classifier the watermark is the
\* first (newest) commit of the returned batch, the newest commit the host
\* listed, whatever the verdicts, throws and issue failures
C9_AdvanceToNewest ==
  entry.outcome = "advanced" =>
    /\ Len(entry.batch) > 0
    /\ entry.classify = Len(entry.batch)
    /\ state[entry.key] = entry.batch[1]
    /\ state[entry.key] = entry.hostHead

\* a batch of two cut by the cap: the classification of the newest commit was
\* positive and its issue creation failed, that of the other commit threw
C9_Witness ==
  /\ entry.outcome = "advanced"
  /\ Len(entry.batch) = 2
  /\ maxCommits = 2
  /\ Pos(hist[entry.key], entry.before) > Pos(hist[entry.key], entry.batch[2]) + 1
  /\ entry.lastThrew
  /\ createIssues
  /\ Len(outputs.results) = 1
  /\ outputs.results[1].sha = entry.batch[1]
  /\ ~outputs.results[1].issueUrl
  /\ state[entry.key] = entry.batch[1]
  /\ entry.batch[1] # entry.batch[2]

\* a step of a run that changes the in-memory state mapping ends the
\* processing of one entry: the first-run record, or the update after the
\* classification of every commit of the batch has been attempted; it changes
\* the watermark of that entry's repository only
AdvanceStepOK ==
  (runs' = runs /\ pc' \notin {"killed", "idle"} /\ state' # state) =>
    /\ pc \in {"latest", "analyze"}
    /\ pc' = "loop"
    /\ idx' = idx + 1
    /\ pc = "analyze" =>
         /\ cur > Len(commits)
         /\ entry.classify = Len(commits)
    /\ entry'.assigned = 1
    /\ \A r \in Repos : r # repositories[idx] => state'[r] = state[r]

\* C10 as stated: the in-memory watermark of a repository is assigned at most
\* once in a run, and only after the classification of every commit of its
\* batch has been attempted
C10_OncePerRepository ==
  [][ /\ AdvanceStepOK
      /\ \A r \in Repos : calls'[r].assigned <= 1 ]_vars

\* C10 amended: the in-memory watermark of a repository is assigned at most
\* once by the processing of each of its configured entries, and only in the
\* step that ends that processing, after the classification of every commit of
\* the entry's batch has been attempted
C10_AdvanceAfterBatch ==
  [][ /\ AdvanceStepOK
      /\ \A r \in Repos : calls'[r].assigned <= Entries(r) ]_vars

C10_Witness ==
  /\ entry.outcome = "advanced"
  /\ entry.assigned = 1
  /\ Len(entry.batch) >= 2
  /\ entry.classify = Len(entry.batch)
  /\ state[entry.key] # entry.before

\* C11: when getCommitsSince returns an empty batch for a repository that has
\* a watermark, the processing of that entry leaves the watermark as it found
\* it and makes no classification call and no issue-creation call
C11_EmptyBatchUnchanged ==
  entry.outcome = "empty" =>
    /\ entry.kind = "since"
    /\ entry.before # NULL
    /\ state[entry.key] = entry.before
    /\ entry.classify = 0 /\ entry.issue = 0 /\ entry.assigned = 0
    /\ entry.diff = 0

\* the watermark is the newest commit of the host: the batch is empty, the
\* run completes and the state file keeps the watermark
C11_Witness ==
  /\ entry.outcome = "empty"
  /\ entry.before # NULL
  /\ entry.before = hist[entry.key][1]
  /\ state[entry.key] = entry.before
  /\ pc = "done"
  /\ disk[entry.key] = entry.before

\* the run passed getInputs and loaded the state file
PassedConfiguration == io.reads = 1

\* the run ended by itself: outputs set, or marked failed
EndedByItself == pc \in {"done", "failed"}

\* C12: a run that passes configuration reads the state file once, at its
\* start, and writes it once, after the last configured entry has been
\* processed and never before: every run that ends by itself has written once
C12_PersistExactlyOnce ==
  [][ /\ io'.reads > io.reads => (pc = "idle" /\ io'.reads = 1)
      /\ Running' => io'.reads = 1
      /\ io'.writes > io.writes =>
           /\ pc = "save"
           /\ idx > Len(repositories)
           /\ io.writes = 0 /\ io'.writes = 1
      /\ (disk' # disk \/ fileKind' # fileKind) =>
           (pc = "save" /\ io'.writes = 1)
      /\ (EndedByItself' /\ PassedConfiguration') => io'.writes = 1
    ]_vars

\* C13: whatever the state file holds, a run that passed configuration and
\* ended by itself has begun every configured entry and has reached the
\* persistence step
C13_LoadNeverFatal ==
  (EndedByItself /\ PassedConfiguration) =>
    /\ visited = 1..Len(repositories)
    /\ io.writes = 1

\* the step in which the catch around analyzeCommit handles its throw
AnalyzeThrew ==
  /\ pc = "analyze"
  /\ pending = <<"messages.create">>
  /\ pending' = <<>>
  /\ entry'.lastThrew

\* C14: when analyzeCommit throws for a commit, no result record is added and
\* no issue creation is started for it, the commit stays counted in
\* analyzedCommits, the loop goes on with the next commit of the batch, and the
\* analysis loop is left only when every commit of the batch has had its
\* classification attempt, by the step that advances the watermark to the
\* newest commit of the batch
C14_OracleFailureNonFatal ==
  [][ /\ AnalyzeThrew =>
           /\ outputs' = outputs
           /\ outputs'.analyzedCommits =
                calls'["a"].classify + calls'["b"].classify
           /\ issueCalls' = issueCalls
           /\ got' = "none"
           /\ pc' = "analyze"
           /\ commits' = commits
           /\ cur' = cur + 1
           /\ state' = state
      /\ (pc = "analyze" /\ pc' \notin {"analyze", "killed"}) =>
           /\ pc' = "loop"
           /\ cur > Len(commits)
           /\ entry.classify = Len(commits)
           /\ state'[repoKey] = commits[1]
           /\ entry'.outcome = "advanced"
    ]_vars

\* analyzeCommit threw for the newest commit of a batch of two, and the other
\* commit has been handed to the classifier
C14_Witness ==
  /\ pc = "analyze"
  /\ Len(commits) = 2
  /\ cur = 2
  /\ entry.lastThrew
  /\ pending = <<"messages.create">>
  /\ entry.classify = 2
  /\ outputs.analyzedCommits = 2
  /\ outputs.results = <<>>

\* analyzeCommit has handled a text response that JSON.parse rejects (the
\* text that follows the prefilled "{" does not complete a JSON object)
UnparseableHandled ==
  /\ fn.op = "analyzeCommit"
  /\ fn.done
  /\ fn.apiOk
  /\ fn.response.type = "text"
  /\ ~fn.response.text.wellFormed

\* C15: for every text response that cannot be parsed, analyzeCommit returns
\* the negative default verdict (flag false, every other field null) and does
\* not throw
C15_UnparseableToDefault ==
  UnparseableHandled =>
    /\ ~fn.result.threw
    /\ fn.result.analysis["isVulnerabilityPatch"] = "false"
    /\ \A f \in DetailFields : fn.result.analysis[f] = NullV

\* the text of a positive verdict cut before its closing brace
C15_Witness ==
  /\ UnparseableHandled
  /\ fn.response.text.object["isVulnerabilityPatch"] = "true"
  /\ ~fn.result.threw
  /\ fn.result.analysis = DefaultAnalysis

\* the step in which the catch around createVulnerabilityIssue handles its
\* throw: the call returns without an issue having been counted
IssueThrew ==
  /\ pc = "analyze"
  /\ pending = <<"issues.create">>
  /\ pending' = <<>>
  /\ pc' # "killed"
  /\ outputs'.issuesCreated = outputs.issuesCreated

\* C16: when createVulnerabilityIssue throws for a positive verdict, the
\* verdict is appended to the results without an issue URL,
\* vulnerabilitiesFound is incremented, issuesCreated is not, and the loop
\* goes on with the next commit of the batch
C16_IssueFailureIsolated ==
  [][ IssueThrew =>
        /\ Len(outputs'.results) = Len(outputs.results) + 1
        /\ SubSeq(outputs'.results, 1, Len(outputs.results)) = outputs.results
        /\ outputs'.results[Len(outputs'.results)] =
             [repo |-> repoKey, sha |-> commits[cur], issueUrl |-> FALSE]
        /\ outputs'.vulnerabilitiesFound = outputs.vulnerabilitiesFound + 1
        /\ outputs'.issuesCreated = outputs.issuesCreated
        /\ outputs'.analyzedCommits = outputs.analyzedCommits
        /\ pc' = "analyze"
        /\ commits' = commits
        /\ cur' = cur + 1
        /\ got' = "none"
        /\ state' = state
    ]_vars

\* the issue creation for the newest commit of a batch of two failed, and the
\* other commit has been handed to the classifier
C16_Witness ==
  /\ pc = "analyze"
  /\ Len(commits) = 2
  /\ cur = 2
  /\ pending = <<"messages.create">>
  /\ entry.issue = 1
  /\ outputs.issuesCreated = 0
  /\ outputs.vulnerabilitiesFound = 1
  /\ outputs.results =
       <<[repo |-> repoKey, sha |-> commits[1], issueUrl |-> FALSE]>>

\* issue-creation calls m and n of the run are for the same commit of the
\* same repository
SameCommit(m, n) ==
  /\ repositories[issueCalls[m][1]] = repositories[issueCalls[n][1]]
  /\ issueCalls[m][2] = issueCalls[n][2]

\* every issue-creation call follows a positive verdict of the same entry for
\* the same commit, one call at most per verdict, none when issue creation is
\* disabled
IssueCallsFollowVerdicts ==
  /\ \A m, n \in 1..Len(issueCalls) : issueCalls[m] = issueCalls[n] => m = n
  /\ Range(issueCalls) \subseteq Range(positives)
  /\ Len(issueCalls) <= Len(positives)
  /\ entry.issue <= entry.classify
  /\ ~createIssues => issueCalls = <<>>

\* C17 as stated: in a run no commit gets more than one issue-creation call,
\* and a commit whose verdict is negative or whose classification threw gets
\* none
C17_OneIssueCallPerCommit ==
  /\ IssueCallsFollowVerdicts
  /\ \A m, n \in 1..Len(issueCalls) : SameCommit(m, n) => m = n

\* C17 amended: every issue-creation call follows a positive verdict, at most
\* one call per positive verdict (no second attempt after a failure), none for
\* a negative verdict or a classification that threw; no commit gets two calls
\* in a run unless the history was rewritten during the run
C17_AtMostOneIssueCall ==
  /\ IssueCallsFollowVerdicts
  /\ (\A r \in Repos : ~rewritten[r]) =>
       \A m, n \in 1..Len(issueCalls) : SameCommit(m, n) => m = n

\* a batch of two is done: the newest commit was positive and its only issue
\* creation failed, the other commit was negative or its classification threw
C17_Witness ==
  /\ entry.outcome = "advanced"
  /\ Len(entry.batch) = 2
  /\ entry.classify = 2
  /\ createIssues
  /\ issueCalls = << <<entry.idx, entry.batch[1]>> >>
  /\ positives = issueCalls
  /\ Len(outputs.results) = 1
  /\ ~outputs.results[1].issueUrl
  /\ outputs.issuesCreated = 0

\* an issue-repo input that is set and is not of the form "owner/repo"
MalformedIssueRepo(kind) == kind \notin {"unset", "ownerRepo"}

\* a configuration error: a repositories input that is not a JSON array of
\* objects with non-empty owner and repo strings, a malformed issue-repo, an
\* invalid state-file path
ConfigurationError(cfg) ==
  \/ cfg.repositories # "valid"
  \/ MalformedIssueRepo(cfg.issueRepo)
  \/ cfg.stateFile \in {"nul", "outside", "cwd"}

\* nothing of a run has happened: no state-file read or write, no host call,
\* no classification call, no issue creation, no entry begun
NothingProcessed ==
  /\ io = NoIo
  /\ calls = NoCalls
  /\ pending = <<>>
  /\ issueCalls = <<>>
  /\ visited = {}
  /\ outputs = NoOutputs
  /\ disk = loaded

\* C18: with a configuration error the run is marked failed before any
\* processing: it is never in the repository loop, and no state-file read or
\* write, host call, classification call or issue creation happens
C18_ConfigurationErrorFatal ==
  ConfigurationError(rawConfig) =>
    /\ pc \in {"idle", "failed"}
    /\ NothingProcessed

\* C19: while a run has not reached the end of its persistence step the state
\* file holds what the run loaded, so a run that is terminated from outside
\* leaves the state file as it was at the start of the run, whatever
\* watermarks it had advanced in memory
C19_KillPersistsNothing ==
  [][ /\ Running' => (disk' = loaded' /\ io'.writes = 0)
      /\ pc' = "killed" =>
           /\ Running
           /\ disk' = disk
           /\ fileKind' = fileKind
           /\ disk' = loaded
    ]_vars

\* a run was terminated after it had obtained a batch for repository a: the
\* state file still holds the watermark the run had loaded, older than the
\* batch
C19_Witness ==
  /\ pc = "killed"
  /\ crashedBatch["a"] # NoBatch
  /\ Len(crashedBatch["a"]) >= 1
  /\ disk["a"] # NULL
  /\ Newer(hist["a"], crashedBatch["a"][1], disk["a"])

\* C20: at most one external call is outstanding at any moment and a call is
\* issued only when none is outstanding; entries are begun one at a time in
\* configured order, the next one only when no call of the previous one is
\* outstanding; within an entry the commits of the batch are handed to the
\* classifier one at a time, each after all the newer ones of the batch
C20_StrictlySequential ==
  [][ /\ Len(pending') <= 1
      /\ (pending' # pending /\ pending' # <<>>) => pending = <<>>
      /\ (visited' \ visited) # {} =>
           /\ visited = 1..(idx - 1)
           /\ visited' = 1..idx
           /\ pending = <<>>
      /\ (Running /\ Running' /\ idx' # idx) =>
           (idx' = idx + 1 /\ pending' = <<>>)
      /\ entry'.classify > entry.classify =>
           /\ pc = "analyze"
           /\ pending' = <<"messages.create">>
           /\ entry'.classify = cur
           /\ \A k \in 1..(cur - 1) :
                Newer(hist[repoKey], commits[k], commits[cur])
    ]_vars

\* the second configured entry has a batch of two: its newest commit has been
\* classified and its other commit is with the classifier
C20_Witness ==
  /\ pc = "analyze"
  /\ idx = 2
  /\ visited = {1, 2}
  /\ Len(commits) = 2
  /\ cur = 2
  /\ pending = <<"messages.create">>
  /\ entry.classify = 2

\* every configured entry of the run ended in a caught error
AllEntriesFailed == errs = 1..Len(repositories)

\* the run has set its four outputs after it persisted the in-memory mapping
OutputsSetAndPersisted ==
  /\ pc = "done"
  /\ io.writes = 1
  /\ io.setOutput = 4
  /\ disk = state

\* C21 as stated: a run that has left its repository loop and ended has set
\* its outputs and persisted the state mapping, and when every entry failed
\* the persisted mapping is the loaded one, the counters are 0 and the results
\* are empty
C21_LoopDoneAlwaysPersists ==
  (LoopOver /\ pc # "save") =>
    /\ OutputsSetAndPersisted
    /\ AllEntriesFailed => (disk = loaded /\ outputs = NoOutputs)

\* C21 amended: a run that has left its repository loop and ended has either
\* written the state file, persisted the in-memory mapping and set its
\* outputs, or its write of the state file threw, it is marked failed, the
\* state file is as loaded and no output is set; when every entry failed, the
\* mapping persisted is the loaded one, the counters are 0 and the results are
\* empty
C21_LoopDonePersistsUnlessWriteFails ==
  (LoopOver /\ pc # "save") =>
    /\ visited = 1..Len(repositories)
    /\ \/ OutputsSetAndPersisted
       \/ /\ pc = "failed"
          /\ io.writes = 1
          /\ io.setOutput = 0
          /\ disk = loaded
    /\ AllEntriesFailed =>
         /\ state = loaded
         /\ disk = loaded
         /\ outputs = NoOutputs

\* both configured entries failed, the second one after a watermark had been
\* loaded for it, and the run set its outputs
C21_Witness ==
  /\ OutputsSetAndPersisted
  /\ Len(repositories) = 2
  /\ AllEntriesFailed
  /\ loaded["a"] # NULL
  /\ disk = loaded
  /\ outputs = NoOutputs

\* a failure has been caught and processing continues: analyzeCommit got text
\* that JSON.parse rejects, the pull-request lookup threw, or a throw reached
\* a catch block of run() or loadState
CaughtFailure ==
  /\ fn.op \in {"analyzeCommit", "getAssociatedPullRequest", "catch"}
  /\ fn.done
  /\ ~fn.result.threw
  /\ fn.op = "analyzeCommit" =>
       (fn.apiOk /\ fn.response.type = "text" /\ ~fn.response.text.wellFormed)
  /\ fn.op = "getAssociatedPullRequest" => fn.throws

\* C22: every caught failure is followed by a warning or error log call before
\* processing continues
C22_CaughtFailuresLogged == CaughtFailure => fn.result.logs >= 1

\* the first-run processing of an entry whose repository has no commit on the
\* host is over
EmptyRepositoryDone ==
  /\ entry.kind = "first"
  /\ entry.outcome # "open"
  /\ hist[entry.key] = <<>>

\* C23: when the host lists no commit for a repository on a first run,
\* getLatestCommitSha throws: the processing of that entry ends in the caught
\* error with no watermark recorded and no call made for a commit, the run
\* goes on with the next entry, and a completed run leaves the repository
\* without an entry in the state file
C23_EmptyRepository ==
  /\ (entry.kind = "first" /\ entry.outcome = "recorded") =>
       (entry.hostHead # NULL /\ state[entry.key] = entry.hostHead)
  /\ EmptyRepositoryDone =>
       /\ entry.outcome = "error"
       /\ entry.idx \in errs
       /\ entry.assigned = 0
       /\ entry.diff = 0 /\ entry.classify = 0 /\ entry.issue = 0
       /\ state[entry.key] = NULL
       /\ idx = entry.idx + 1
       /\ pc \in {"loop", "save", "done", "failed"}
       /\ pc = "done" => disk[entry.key] = NULL

\* the second run again took the first-run branch for the empty repository
\* listed first, getLatestCommitSha threw, and the run is about to process the
\* next entry
C23_Witness ==
  /\ runs = 2
  /\ repositories = <<"b", "a">>
  /\ EmptyRepositoryDone
  /\ entry.idx = 1
  /\ entry.key = "b"
  /\ 1 \in errs
  /\ pc = "loop"
  /\ idx = 2
  /\ state["b"] = NULL

\* no history was rewritten and no batch of an earlier run is left unsaved:
\* every run that obtained a batch has persisted its state, or a later run
\* that obtained a batch for the same repository has
AllRunsPersisted ==
  \A r \in Repos : ~rewritten[r] /\ crashedBatch[r] = NoBatch

\* the step hands commits[cur] to the classifier
HandsCommit == pc = "analyze" /\ entry'.classify > entry.classify

\* C24: when all earlier runs have persisted their state and no history was
\* rewritten, a commit that is handed to the classifier has never been handed
\* to it before, in an earlier run or by an earlier entry of the same
\* repository
C24_NoDuplicateClassification ==
  [][ (HandsCommit /\ AllRunsPersisted) =>
        commits[cur] \notin everHanded[repoKey] ]_vars

\* the second run, after a completed first run that classified a commit of
\* repository a, hands a newer commit of a to the classifier for a repository
\* that is listed twice
C24_Witness ==
  /\ runs = 2
  /\ AllRunsPersisted
  /\ repositories = <<"a", "a">>
  /\ pc = "analyze"
  /\ pending = <<"messages.create">>
  /\ Cardinality(everHanded["a"]) >= 2
  /\ commits[cur] \in everHanded["a"]
  /\ disk["a"] \in everHanded["a"]
  /\ Newer(hist["a"], commits[cur], disk["a"])

\* C25: in the processing of every configured entry the number of diff
\* fetches, the number of commits getCommitsSince collects and returns, and
\* the number of classification calls are each at most max-commits
C25_AtMostMaxCommits ==
  /\ entry.diff <= maxCommits
  /\ Len(commits) <= maxCommits
  /\ Len(entry.batch) <= maxCommits
  /\ entry.classify <= maxCommits
  /\ \A r \in Repos : firstBatch[r] # NoBatch => Len(firstBatch[r]) <= maxCommits

\* the cap cut the batch: more commits are newer than the watermark than
\* max-commits, and the entry fetched and classified max-commits of them
C25_Witness ==
  /\ entry.outcome = "advanced"
  /\ ~rewritten[entry.key]
  /\ Pos(hist[entry.key], entry.before) - 1 > maxCommits
  /\ maxCommits = 2
  /\ entry.diff = maxCommits
  /\ Len(entry.batch) = maxCommits
  /\ entry.classify = maxCommits

\* the listing of the host that getCommitsSince scans, newest first
Listing == hist[entry.key]

\* the position of the watermark in the listing, 0 when it is not listed
WatermarkAt == Pos(Listing, entry.before)

\* s is the first Len(s) commits of the listing, in the listing's order
IsPrefixOfListing(s) == s = SubSeq(Listing, 1, Len(s))

\* C26: what getCommitsSince has collected, and what it returns, is a
\* contiguous prefix of the host's newest-first listing in the same order
\* without a repeated commit; when the watermark is listed, the scan collects
\* only commits listed before it, and no diff or pull-request fetch is made
\* or outstanding for the watermark or a commit listed after it
C26_ContiguousPrefix ==
  /\ IsPrefixOfListing(commits)
  /\ IsPrefixOfListing(entry.batch)
  /\ firstBatch[entry.key] # NoBatch => IsPrefixOfListing(firstBatch[entry.key])
  /\ Cardinality(Range(commits)) = Len(commits)
  /\ WatermarkAt # 0 =>
       /\ Len(commits) < WatermarkAt
       /\ Len(entry.batch) < WatermarkAt
       /\ entry.diff < WatermarkAt
       /\ (pc = "scan" /\ pending # <<>>) => pos < WatermarkAt
       /\ pc = "scan" => pos <= WatermarkAt

\* the scan stopped at a watermark inside the page, behind at least two
\* collected commits and ahead of older ones, and returned the batch
C26_Witness ==
  /\ pc = "analyze"
  /\ WatermarkAt = 3
  /\ WatermarkAt < Len(commitList)
  /\ pos = WatermarkAt
  /\ entry.batch = SubSeq(Listing, 1, 2)
  /\ entry.diff = 2

\* the page the entry fetched, recovered from the listing: the host has only
\* pushed on top of the commit that headed the listing at that time (once
\* that commit is force-pushed away the page is not recovered: <<>>)
FetchedPage ==
  LET k == Pos(Listing, entry.hostHead)
  IN IF k = 0 THEN <<>>
     ELSE ListCommits(SubSeq(Listing, k, Len(Listing)),
                      PerPage(CommitCap(maxCommits)))

\* getCommitsSince was called with a watermark that is not in the page
WatermarkMissed ==
  /\ entry.kind = "since"
  /\ FetchedPage # <<>>
  /\ Pos(FetchedPage, entry.before) = 0

\* C27: when the watermark does not occur in the fetched page,
\* getCommitsSince fetches the diff of every commit of the page and returns
\* the whole page as the batch, and the run, once the batch is through,
\* sets the watermark to the newest commit of the page
C27_MissedWatermarkTakesPage ==
  /\ (pc = "analyze" /\ WatermarkMissed) =>
       /\ commitList = FetchedPage
       /\ commits = FetchedPage
       /\ entry.batch = FetchedPage
       /\ entry.diff = Len(FetchedPage)
  /\ (entry.outcome = "advanced" /\ WatermarkMissed) =>
       /\ entry.batch = FetchedPage
       /\ entry.diff = Len(FetchedPage)
       /\ entry.classify = Len(FetchedPage)
       /\ state[entry.key] = FetchedPage[1]

\* the watermark commit was force-pushed away: the page of two older commits
\* was returned whole and the watermark moved to the newest of them
C27_Witness ==
  /\ entry.outcome = "advanced"
  /\ WatermarkMissed
  /\ rewritten[entry.key]
  /\ Pos(Listing, entry.before) = 0
  /\ Len(FetchedPage) = 2
  /\ entry.batch = FetchedPage
  /\ state[entry.key] = FetchedPage[1]

\* more commits are new than the page holds: the page was returned whole
C27_WitnessCut ==
  /\ entry.outcome = "advanced"
  /\ WatermarkMissed
  /\ Pos(Listing, entry.before) > Len(FetchedPage) + 1
  /\ entry.batch = FetchedPage
  /\ state[entry.key] = FetchedPage[1]

\* ---- runs that are killed after an issue creation, on a quiet host

NextCrash ==
  \/ StartRun
  \/ NextRepo
  \/ Call
  \/ GetLatestCommitSha
  \/ ListPage
  \/ GetCommit
  \/ ScanCommit
  \/ GetCommitsSinceReturn
  \/ AnalyzeStep
  \/ CreateIssue
  \/ Advance
  \/ LoopDone
  \/ SaveState
  \/ KillAfterIssue
  \/ Exit

SpecCrash == Init /\ [][NextCrash]_vars

\* across consecutive runs at most one issue is created per commit: no issue
\* of this run is for a commit that has one from a killed run
OneIssuePerCommitAcrossRuns ==
  \A r \in Repos : IssuesOf(r) \cap killedIssues[r] = {}

\* C28: a kill after an issue creation leaves the state file with a
\* watermark that is older than the commit of the issue, so that the next
\* run obtains the commit in its batch again (and can create a second issue
\* for it: OneIssuePerCommitAcrossRuns is not an invariant)
C28_KilledIssueNotCovered ==
  \A r \in Repos : \A c \in killedIssues[r] :
    /\ c \in Range(crashedBatch[r])
    /\ Newer(hist[r], c, disk[r])
    /\ firstBatch[r] # NoBatch => c \in Range(firstBatch[r])

\* the run after a killed run has created a second issue for a commit the
\* killed run had created one for
C28_Witness ==
  /\ runs = 2
  /\ Running
  /\ ~OneIssuePerCommitAcrossRuns
  /\ \E k \in 1..Len(outputs.results) :
       /\ outputs.results[k].issueUrl
       /\ outputs.results[k].sha \in killedIssues[outputs.results[k].repo]
       /\ outputs.results[k].sha \in everHanded[outputs.results[k].repo]

\* the classification calls started in the run
ClassifyCalls == calls["a"].classify + calls["b"].classify

\* the result records that carry an issue URL
WithIssueUrl == {k \in 1..Len(outputs.results) : outputs.results[k].issueUrl}

\* C29: wherever the run waits or has ended, vulnerabilitiesFound is the
\* length of results, issuesCreated the number of records with an issue URL,
\* issuesCreated <= vulnerabilitiesFound <= analyzedCommits, and
\* analyzedCommits the number of classification calls started in the run
C29_CountersConsistent ==
  /\ outputs.vulnerabilitiesFound = Len(outputs.results)
  /\ outputs.issuesCreated = Cardinality(WithIssueUrl)
  /\ outputs.issuesCreated <= outputs.vulnerabilitiesFound
  /\ outputs.vulnerabilitiesFound <= outputs.analyzedCommits
  /\ outputs.analyzedCommits = ClassifyCalls

\* three classification calls, of which the last threw, two positive
\* verdicts, one of them with an issue
C29_Witness ==
  /\ outputs.analyzedCommits = 3
  /\ outputs.vulnerabilitiesFound = 2
  /\ outputs.issuesCreated = 1
  /\ entry.lastThrew
  /\ ClassifyCalls = 3

\* commit c is newer than commit d of the same repository: identifiers are
\* handed out in push order
NewerSha(c, d) == c > d

\* the positive verdicts whose record is due: all of them, but for the one
\* whose issue creation the run is at
Recorded ==
  IF pc = "analyze" /\ got = "positive"
  THEN SubSeq(positives, 1, Len(positives) - 1)
  ELSE positives

\* the position of the first entry for repository r in the configuration
FirstEntryOf(r) == Pos(repositories, r)

\* C30 as stated: records of an earlier configured repository precede those
\* of a later one, the records of one repository are newest commit first,
\* and there is one record per commit with a positive verdict
C30_OrderedPerRepository ==
  /\ Len(outputs.results) = Len(Recorded)
  /\ \A k, l \in 1..Len(outputs.results) :
       k < l =>
         /\ FirstEntryOf(outputs.results[k].repo)
              <= FirstEntryOf(outputs.results[l].repo)
         /\ outputs.results[k].repo = outputs.results[l].repo
              => NewerSha(outputs.results[k].sha, outputs.results[l].sha)

\* C30: the results list holds one record for every positive verdict of the
\* run, in the order of the classifications, and for no other commit: the
\* records of an earlier configured entry precede those of a later one, and
\* the records of one entry are newest commit first, without a repetition
C30_OrderedPerEntry ==
  /\ Len(outputs.results) = Len(Recorded)
  /\ \A k \in 1..Len(Recorded) :
       /\ outputs.results[k].repo = repositories[Recorded[k][1]]
       /\ outputs.results[k].sha = Recorded[k][2]
  /\ \A k, l \in 1..Len(positives) :
       k < l =>
         /\ positives[k][1] <= positives[l][1]
         /\ positives[k][1] = positives[l][1]
              => NewerSha(positives[k][2], positives[l][2])

\* two records of the first entry, newest first, precede one of the second
\* entry
C30_Witness ==
  /\ Len(outputs.results) = 3
  /\ positives = Recorded
  /\ positives[1][1] = 1 /\ positives[2][1] = 1 /\ positives[3][1] = 2
  /\ outputs.results[1].sha = positives[1][2]
  /\ outputs.results[2].sha = positives[2][2]
  /\ outputs.results[3].sha = positives[3][2]
  /\ NewerSha(outputs.results[1].sha, outputs.results[2].sha)

\* a record of the first configured repository precedes one of the second
C30_WitnessTwoRepositories ==
  /\ Len(outputs.results) = 2
  /\ positives = Recorded
  /\ outputs.results[1].repo = "a" /\ positives[1][1] = 1
  /\ outputs.results[2].repo = "b" /\ positives[2][1] = 2

\* C31: with create-issues = 'false' the run makes no issue-creation call
\* and issuesCreated stays 0, while every positive verdict is counted in
\* vulnerabilitiesFound and has its record, without an issue URL, in results
C31_DetectionOnly ==
  createIssues = CreateIssuesInput("false") =>
    /\ issueCalls = <<>>
    /\ \A r \in Repos : calls[r].issue = 0
    /\ entry.issue = 0
    /\ outputs.issuesCreated = 0
    /\ outputs.vulnerabilitiesFound = Len(positives)
    /\ Len(outputs.results) = Len(positives)
    /\ \A k \in 1..Len(outputs.results) :
         /\ ~outputs.results[k].issueUrl
         /\ outputs.results[k].sha = positives[k][2]
         /\ outputs.results[k].repo = repositories[positives[k][1]]

\* a run without issue creation that has ended with two positive verdicts
C31_Witness ==
  /\ createIssues = CreateIssuesInput("false")
  /\ pc = "done"
  /\ outputs.vulnerabilitiesFound = 2
  /\ Len(positives) = 2
  /\ outputs.issuesCreated = 0
  /\ outputs.analyzedCommits = 2

\* C32 as stated: when a diff fetch of an entry failed, no commit of the
\* batch that was being enriched (the commits whose diff fetch was started)
\* has been classified in the run
C32_FailedBatchUnclassifiedInRun ==
  (entry.outcome = "error" /\ entry.diff > 0) =>
    \A k \in 1..Min(entry.diff, Len(FetchedPage)) :
      FetchedPage[k] \notin Range(firstBatch[entry.key])

\* C32: an entry makes its first classification call only after
\* getCommitsSince has returned its batch, every commit of which has had its
\* diff fetched and its pull-request lookup finished; an entry with a failed
\* listing or diff fetch makes no classification call
C32_EnrichedFirstPerEntry ==
  /\ pc \in {"list", "scan"} => entry.classify = 0
  /\ entry.classify > 0 =>
       /\ Len(entry.batch) > 0
       /\ entry.diff = Len(entry.batch)
  /\ (pc = "analyze" /\ pending # <<>>) =>
       /\ commits = entry.batch
       /\ entry.diff = Len(commits)
  /\ entry.outcome = "error" => entry.classify = 0

\* the diff of the first commit was fetched, the fetch for the second one
\* failed: the entry ended without a classification call
C32_Witness ==
  /\ entry.outcome = "error"
  /\ entry.diff = 2
  /\ entry.classify = 0
  /\ idx \in errs \/ (idx - 1) \in errs
  /\ maxCommits = 2

\* C33: an output is set only by a run whose write of the state file has
\* returned, and then all four are; a run whose write of the state file threw
\* is marked failed and has set no output, whatever it classified and
\* whatever issues it created
C33_OutputsAfterStateFile ==
  /\ io.setOutput \in {0, 4}
  /\ io.setOutput > 0 => (pc = "done" /\ io.writes = 1 /\ disk = state)
  /\ pc = "done" => io.setOutput = 4
  /\ (pc = "failed" /\ io.writes = 1) => (io.setOutput = 0 /\ disk = loaded)
  /\ Running => io.setOutput = 0

\* the write of the state file threw after a classification and an issue
\* creation: the run is marked failed and no output is set
C33_Witness ==
  /\ pc = "failed"
  /\ io.writes = 1
  /\ io.setOutput = 0
  /\ outputs.analyzedCommits >= 1
  /\ outputs.issuesCreated >= 1
  /\ state # disk

\* ---- runs over a state file that holds an entry of a repository that is
\* not configured

\* the keys of the state file that no configured entry has
NotConfigured == Repos \ Range(repositories)

\* repository a is configured, once or twice; the state file is a JSON object
\* that may hold a watermark for a and holds an entry for b
InitFrame ==
  /\ hist = [r \in Repos |-> IF r = "a" THEN <<2, 1>> ELSE <<>>]
  /\ nextSha = [r \in Repos |-> Len(hist[r]) + 1]
  /\ rewritten = [r \in Repos |-> FALSE]
  /\ rawConfig = ValidConfig
  /\ fileKind = "map"
  /\ \E w \in {NULL} \cup Range(hist["a"]), other \in 1..2 :
       disk = [r \in Repos |-> IF r = "a" THEN w ELSE other]
  /\ repositories \in { <<"a">>, <<"a", "a">> }
  /\ maxCommits \in 1..MaxCap
  /\ createIssues \in {CreateIssuesInput(raw) :
                         raw \in {"false", "true", "False", ""}}
  /\ runs = 0
  /\ pc = "idle"
  /\ state = NoState
  /\ idx = 1
  /\ lastSha = NULL
  /\ commitList = <<>>
  /\ pos = 1
  /\ commits = <<>>
  /\ cur = 1
  /\ outputs = NoOutputs
  /\ calls = NoCalls
  /\ errs = {}
  /\ visited = {}
  /\ positives = <<>>
  /\ loaded = disk
  /\ entry = NoEntry
  /\ everHanded = [r \in Repos |-> {}]
  /\ firstBatch = [r \in Repos |-> NoBatch]
  /\ crashedBatch = [r \in Repos |-> NoBatch]
  /\ killedIssues = [r \in Repos |-> {}]
  /\ fn = NoFn
  /\ stateKind = "object"
  /\ pending = <<>>
  /\ got = "none"
  /\ io = NoIo
  /\ issueCalls = <<>>

SpecFrame == InitFrame /\ [][NextStart]_vars

\* C34: no step of a run changes the entry of a key that is not configured,
\* in the state file or in the in-memory mapping: the entry is loaded as the
\* file holds it, kept by the loop and written back with the same value
C34_FrameNonConfigured ==
  [][ \A r \in NotConfigured :
        /\ disk'[r] = disk[r]
        /\ (pc = "idle" /\ Running') => state'[r] = disk[r]
        /\ (Running /\ pc' \notin {"killed", "idle"}) => state'[r] = state[r]
    ]_vars

\* a run that moved the watermark of a has written the state file, and the
\* entry of b holds what it held
C34_Witness ==
  /\ pc = "done"
  /\ io.writes = 1
  /\ "b" \in NotConfigured
  /\ disk["a"] # loaded["a"]
  /\ disk["b"] # NULL
  /\ disk["b"] = loaded["b"]
  /\ state["b"] = disk["b"]

\* ---- getCommitsSince together with the calls of getAssociatedPullRequest

SpecLookup == (InitTracker \/ InitCatch) /\ [][NextTracker \/ NextCatch]_vars

\* a call of getAssociatedPullRequest has returned or thrown
LookupDone == fn.op = "getAssociatedPullRequest" /\ fn.done

\* C35: getAssociatedPullRequest never throws: it returns null when the host
\* call throws or returns no pull request, and the first pull request of the
\* list otherwise; getCommitsSince makes one lookup for every commit it
\* collects, after the diff fetch of the commit, and an entry that ends in an
\* error does so from the listing or a diff fetch, not from a lookup
C35_LookupNeverFails ==
  /\ LookupDone =>
       /\ ~fn.result.threw
       /\ (fn.throws \/ fn.prs = <<>>) => fn.result.pullRequest = NULL
       /\ (~fn.throws /\ fn.prs # <<>>) => fn.result.pullRequest = fn.prs[1]
  /\ pc = "scan" =>
       entry.lookup = Len(commits)
                        + (IF pending = <<"listPullRequests">> THEN 1 ELSE 0)
  /\ pc = "analyze" => entry.lookup = Len(entry.batch)
  /\ entry.lookup <= entry.diff
  /\ entry.outcome = "error" =>
       (entry.diff = 0 \/ entry.lookup = entry.diff - 1)

\* the host call threw: the lookup returned null
C35_Witness ==
  /\ LookupDone
  /\ fn.throws
  /\ fn.prs # <<>>
  /\ ~fn.result.threw
  /\ fn.result.pullRequest = NULL

\* three pull requests: the first one is attached
C35_WitnessFirst ==
  /\ LookupDone
  /\ ~fn.throws
  /\ Len(fn.prs) = 3
  /\ fn.result.pullRequest = fn.prs[1]

\* two commits were collected after two lookups
C35_WitnessCollected ==
  /\ pc = "analyze"
  /\ Len(entry.batch) = 2
  /\ entry.lookup = 2

\* ---- runs whose external calls all return or throw

\* a step of run(): a statement runs, or a call that was awaited returns or
\* throws
RunStep ==
  \/ NextRepo
  \/ Call
  \/ GetLatestCommitSha
  \/ ListPage
  \/ GetCommit
  \/ ScanCommit
  \/ GetCommitsSinceReturn
  \/ AnalyzeStep
  \/ CreateIssue
  \/ Advance
  \/ LoopDone
  \/ SaveState

NextLive == StartRun \/ RunStep \/ Exit

\* the process is not killed, and a run that can take a step eventually
\* takes one: every call it awaits returns or throws
SpecLive == InitStart /\ [][NextLive]_vars /\ WF_vars(RunStep)

\* C36: a run that has started reaches its end, with its outputs set or
\* marked failed, for every configuration, every content of the state file
\* and every outcome of the external calls
C36_Termination == (pc # "idle") ~> EndedByItself

\* a run over two entries has ended after classifications, with outputs set
C36_Witness ==
  /\ pc = "done"
  /\ io.setOutput = 4
  /\ visited = {1, 2}
  /\ outputs.analyzedCommits >= 1

\* ---- createVulnerabilityIssue: labels of the issue

\* the two createVulnerabilityIssue functions of the repository
Issuers == {"src/src/github.ts", "src/unnamed/part_003"}

\* a severity value of the verdict that is not a string (a JSON number,
\* boolean, array or object)
NonString == "nonString"

\* severity values the oracle can return: JSON null, strings in several
\* spellings, a value that is not a string
SeverityValues ==
  {NullV, NonString, "", "Critical", "critical", "CRITICAL", "High", "HIGH",
   "Medium", "medium", "Low", "LOW", "Unknown", " high", "severe",
   "bug,triage"}

\* String.prototype.toLowerCase on the string values above
ToLowerCase(s) ==
  CASE s \in {"Critical", "critical", "CRITICAL"} -> "critical"
    [] s \in {"High", "HIGH"} -> "high"
    [] s \in {"Medium", "medium"} -> "medium"
    [] s \in {"Low", "LOW"} -> "low"
    [] s = "Unknown" -> "unknown"
    [] OTHER -> s

\* analysis.severity?.toLowerCase() || "unknown", for null and strings
RawSeverity(severity) ==
  IF severity = NullV \/ ToLowerCase(severity) = "" THEN "unknown"
  ELSE ToLowerCase(severity)

AllowedSeverities == {"critical", "high", "medium", "low"}

\* a label taken from the verdict as it is
SeverityLabelRaw(issuer, severity) == RawSeverity(severity)

\* severityLabel: src/src/github.ts keeps a value of allowedSeverities and
\* replaces any other by "unknown"; src/unnamed/part_003 has no such list
SeverityLabel(issuer, severity) ==
  IF issuer = "src/src/github.ts"
  THEN IF RawSeverity(severity) \in AllowedSeverities
       THEN RawSeverity(severity) ELSE "unknown"
  ELSE RawSeverity(severity)

\* createVulnerabilityIssue: a severity without toLowerCase throws a
\* TypeError before the host is called; a throw of octokit.issues.create is
\* rethrown; otherwise the issue exists with the labels of the request
IssueLabels(issuer, severity, hostOk) ==
  IF severity = NonString \/ ~hostOk
  THEN [threw |-> TRUE, created |-> FALSE, labels |-> <<>>]
  ELSE [threw |-> FALSE, created |-> TRUE,
        labels |-> <<"vulnerability",
                     "severity:" \o SeverityLabel(issuer, severity)>>]

InitLabels ==
  /\ Quiet
  /\ \E issuer \in Issuers, severity \in SeverityValues, hostOk \in BOOLEAN :
       fn = [op |-> "createVulnerabilityIssue", issuer |-> issuer,
             severity |-> severity, hostOk |-> hostOk, done |-> FALSE,
             result |-> Rejected]

\* createVulnerabilityIssue returns or throws
CallCreateVulnerabilityIssue ==
  /\ fn.op = "createVulnerabilityIssue"
  /\ ~fn.done
  /\ fn' = [fn EXCEPT !.done = TRUE,
               !.result = IssueLabels(fn.issuer, fn.severity, fn.hostOk)]
  /\ UNCHANGED runVars

SpecLabels == InitLabels /\ [][CallCreateVulnerabilityIssue]_vars

IssueCreatedBy(issuer) ==
  /\ fn.op = "createVulnerabilityIssue"
  /\ fn.done
  /\ fn.issuer = issuer
  /\ fn.result.created

AllowedLabels ==
  { <<"vulnerability", "severity:" \o x>> :
      x \in AllowedSeverities \cup {"unknown"} }

\* C37: the labels of every created issue are 'vulnerability' and
\* 'severity:X' with X one of critical, high, medium, low, unknown
C37_LabelsAllowListed ==
  \A issuer \in Issuers :
    IssueCreatedBy(issuer) => fn.result.labels \in AllowedLabels

\* the labels of every issue created by the createVulnerabilityIssue of
\* src/src/github.ts are allow-listed, and a severity that is null, empty or
\* no spelling of Critical / High / Medium / Low gives severity:unknown
LabelsAllowListedHardened ==
  IssueCreatedBy("src/src/github.ts") =>
    /\ fn.result.labels \in AllowedLabels
    /\ fn.severity \in {NullV, "", "Unknown", " high", "severe", "bug,triage"}
         => fn.result.labels = <<"vulnerability", "severity:unknown">>

\* ---- createVulnerabilityIssue: detail fields in title and body

\* the backtick character
Backtick == "backtick"

\* characters of a detail-field text: a backtick, a letter, and characters
\* Markdown and HTML give a meaning to
Chars == {Backtick, "x", "[", "<", "\\"}

\* the zero-width space U+200B
Zwsp == "zwsp"

\* texts of at most MaxText characters
Texts == UNION { [1..n -> Chars] : n \in 0..MaxText }

\* the classifier detail fields createVulnerabilityIssue embeds, and those it
\* puts inside a code fence
EmbeddedFields ==
  {"vulnerabilityType", "severity", "description", "affectedCode",
   "proofOfConcept"}
FencedFields == {"affectedCode", "proofOfConcept"}

RECURSIVE Concat(_)
Concat(ss) == IF ss = <<>> THEN <<>> ELSE Head(ss) \o Concat(Tail(ss))

\* text.replace(/c/g, rep) for a single character c
ReplaceAll(text, c, rep) ==
  Concat([n \in 1..Len(text) |-> IF text[n] = c THEN rep ELSE <<text[n]>>])

\* position n of text is inside a run of three or more backticks
InLongRun(text, n) ==
  \E j \in 1..n, k \in n..Len(text) :
    /\ k - j + 1 >= 3
    /\ \A m \in j..k : text[m] = Backtick

\* escapeCodeFence: every run of three or more backticks becomes as many
\* pairs of a backtick and a zero-width space
EscapeCodeFence(text) ==
  Concat([n \in 1..Len(text) |->
            IF InLongRun(text, n) THEN <<Backtick, Zwsp>> ELSE <<text[n]>>])

\* escapeMarkdown: the replacements in the order of the code (of its five
\* characters the texts have the backslash, [ and <)
EscapeMarkdown(text) ==
  ReplaceAll(ReplaceAll(ReplaceAll(text, "\\", <<"\\", "\\">>),
                        "[", <<"\\", "[">>),
             "<", <<"&", "l", "t", ";">>)

\* the escaping function of src/src/github.ts for a field
EscapeOf(field, text) ==
  IF field \in FencedFields THEN EscapeCodeFence(text)
  ELSE EscapeMarkdown(text)

\* a rendering that embeds the field as the oracle gave it
EmbeddedAsIs(issuer, field, text) == text

\* what createVulnerabilityIssue puts into title and body for a field:
\* src/src/github.ts the safe... value, src/unnamed/part_003 the field itself
Embedded(issuer, field, text) ==
  IF issuer = "src/src/github.ts" THEN EscapeOf(field, text) ELSE text

InitRender ==
  /\ Quiet
  /\ \E issuer \in Issuers, field \in EmbeddedFields, text \in Texts :
       fn = [op |-> "render", issuer |-> issuer, field |-> field,
             text |-> text, done |-> FALSE, result |-> <<>>]

\* createVulnerabilityIssue builds title and body
Render ==
  /\ fn.op = "render"
  /\ ~fn.done
  /\ fn' = [fn EXCEPT !.done = TRUE,
               !.result = Embedded(fn.issuer, fn.field, fn.text)]
  /\ UNCHANGED runVars

SpecRender == InitRender /\ [][Render]_vars

RenderedBy(issuer) == fn.op = "render" /\ fn.done /\ fn.issuer = issuer

\* a run of three or more consecutive backticks
HasFence(text) ==
  \E n \in 1..(Len(text) - 2) :
    text[n] = Backtick /\ text[n + 1] = Backtick /\ text[n + 2] = Backtick

\* the field went through its escaping function, leaves no raw [ or < and,
\* inside a code fence, no run of three backticks
EscapedEmbedding ==
  /\ fn.result = EscapeOf(fn.field, fn.text)
  /\ fn.field \in FencedFields => ~HasFence(fn.result)
  /\ fn.field \notin FencedFields =>
       /\ "<" \notin Range(fn.result)
       /\ \A n \in 1..Len(fn.result) :
            fn.result[n] = "[" => (n > 1 /\ fn.result[n - 1] = "\\")

\* C38: every classifier detail field embedded in a created issue has been
\* passed through an escaping function, and text placed inside a code fence
\* has no run of three or more backticks after escaping
C38_DetailFieldsEscaped ==
  \A issuer \in Issuers : RenderedBy(issuer) => EscapedEmbedding

\* the same for the createVulnerabilityIssue of src/src/github.ts alone
DetailFieldsEscapedHardened ==
  RenderedBy("src/src/github.ts") => EscapedEmbedding

\* a fenced field with a run of three backticks was escaped
HardenedFenceEscaped ==
  /\ RenderedBy("src/src/github.ts")
  /\ fn.field = "affectedCode"
  /\ HasFence(fn.text)
  /\ fn.result = <<Backtick, Zwsp, Backtick, Zwsp, Backtick, Zwsp>>

\* ---- truncateDiff

\* the truncation marker "\n\n... [diff truncated]", character by character
Marker ==
  <<"\n", "\n", ".", ".", ".", " ", "[", "d", "i", "f", "f", " ",
    "t", "r", "u", "n", "c", "a", "t", "e", "d", "]">>

\* diffs of at most MaxDiff characters; "]" also ends the marker
DiffChars == {"x", "]"}
Diffs == UNION { [1..n -> DiffChars] : n \in 0..MaxDiff }

\* diff.substring(0, n) for 0 <= n
Substring(diff, n) ==
  IF n >= Len(diff) THEN diff ELSE SubSeq(diff, 1, n)

\* a truncateDiff that also cuts a diff of exactly maxLength characters
TruncateDiffStrict(diff, maxLength) ==
  IF Len(diff) < maxLength THEN diff
  ELSE Substring(diff, maxLength) \o Marker

\* truncateDiff
TruncateDiff(diff, maxLength) ==
  IF Len(diff) <= maxLength THEN diff
  ELSE Substring(diff, maxLength) \o Marker

InitTruncate ==
  /\ Quiet
  /\ \E diff \in Diffs, maxLength \in 0..(MaxDiff + 1) :
       fn = [op |-> "truncateDiff", diff |-> diff, maxLength |-> maxLength,
             applied |-> 0, once |-> <<>>, twice |-> <<>>]

\* truncateDiff(diff, maxLength)
TruncateOnce ==
  /\ fn.op = "truncateDiff"
  /\ fn.applied = 0
  /\ fn' = [fn EXCEPT !.applied = 1,
               !.once = TruncateDiff(fn.diff, fn.maxLength)]
  /\ UNCHANGED runVars

\* truncateDiff applied to its own result, with the same maxLength
TruncateAgain ==
  /\ fn.op = "truncateDiff"
  /\ fn.applied = 1
  /\ fn' = [fn EXCEPT !.applied = 2,
               !.twice = TruncateDiff(fn.once, fn.maxLength)]
  /\ UNCHANGED runVars

SpecTruncate == InitTruncate /\ [][TruncateOnce \/ TruncateAgain]_vars

\* C39: truncateDiff returns the diff unchanged when its length is at most
\* maxLength and otherwise its first maxLength characters followed by the
\* marker; the result is never longer than maxLength plus the marker, and a
\* second application with the same maxLength changes nothing
C39_TruncateDiff ==
  fn.op = "truncateDiff" =>
    /\ fn.applied >= 1 =>
         /\ Len(fn.diff) <= fn.maxLength => fn.once = fn.diff
         /\ Len(fn.diff) > fn.maxLength =>
              /\ Len(fn.once) = fn.maxLength + Len(Marker)
              /\ \A n \in 1..fn.maxLength : fn.once[n] = fn.diff[n]
              /\ \A n \in 1..Len(Marker) :
                   fn.once[fn.maxLength + n] = Marker[n]
         /\ Len(fn.once) <= fn.maxLength + Len(Marker)
    /\ fn.applied = 2 => fn.twice = fn.once

\* a diff longer than maxLength was cut, marked, and cut again to the same
C39_Witness ==
  /\ fn.op = "truncateDiff"
  /\ fn.applied = 2
  /\ fn.maxLength = 2
  /\ Len(fn.diff) = 3
  /\ Len(fn.once) = 2 + Len(Marker)
  /\ fn.twice = fn.once

\* a diff of exactly maxLength characters came back unchanged
C39_WitnessExact ==
  /\ fn.op = "truncateDiff"
  /\ fn.applied = 2
  /\ fn.maxLength = 3
  /\ Len(fn.diff) = 3
  /\ fn.twice = fn.diff

====
